---- MODULE Spec2Model ----
(***************************************************************************)
(* Interaction and view-state engine of the canvas force graph widget     *)
(* (class ForceGraphCanvas, src/src/ForceGraph.tsx): the node and edge     *)
(* store, selection, the pointer handlers and the view transform, with    *)
(* the d3 simulation and the browser's event loop as the environment.     *)
(*                                                                         *)
(* Objects are identified by an object id (oid): the code compares nodes  *)
(* and links by reference (===) in removeNode and _performSelection, and  *)
(* by the id property elsewhere.  A reference to a node or a link is a    *)
(* record [oid, id]; oid 0 is the null reference.                         *)
(***************************************************************************)
EXTENDS Integers, Sequences, FiniteSets, TLC

VARIABLES
    canvas,             \* this.canvas: what the element gives (context, parent)
    options,            \* this.options: the zoom limits of the configuration
    transition,         \* whether the d3 transition that resetZoom starts on
                        \* the canvas is under way
    nodes,              \* this.nodes: sequence of node objects
    links,              \* this.links: sequence of link objects, endpoints resolved
    selectedNode,       \* this.selectedNode
    selectedLink,       \* this.selectedLink
    draggingNode,       \* this.draggingNode
    wasDragging,        \* this.wasDragging
    currentTransform,   \* this.currentTransform (d3.ZoomTransform)
    activePointers,     \* this.activePointers: pointerId -> start position and time
    primaryPointerId,   \* this.primaryPointerId
    simulation,         \* this.simulation: energy, target, timer and registered data
    timers,             \* pending setTimeout callbacks of addNode (node ids, FIFO)
    now,                \* Date.now()
    touches,            \* the touches on the canvas (event.touches), oldest first
    touchStartPos,      \* this.touchStartPos of the mouse/touch variant
    touchStartTime,     \* this.touchStartTime of the mouse/touch variant
    emitted,            \* the calls the last handler made: _performSelection
                        \* and the listeners (all registered)
    lastCall            \* history: the public operation called last, or the
                        \* event handled last where events are recorded

vars == <<canvas, options, transition, nodes, links, selectedNode, selectedLink, draggingNode, wasDragging,
          currentTransform, activePointers, primaryPointerId, simulation,
          timers, now, touches, touchStartPos, touchStartTime, emitted, lastCall>>

(***************************************************************************)
(* Bounds of the model.                                                    *)
(***************************************************************************)
MaxNodes == 3
MaxLinks == 2
MaxTimers == 1
MaxNow == 1
MaxNewNodes == 2
MaxNewLinks == 2

(***************************************************************************)
(* Program constants: the default options of the constructor.             *)
(***************************************************************************)
null == -1
tapThreshold == 5
tapTimeout == 200
selectionRadius == 50
linkTolerance == 5
settleDelay == 100

NoId == ""
NoNode == [oid |-> 0, id |-> NoId]
NoLink == [oid |-> 0, id |-> NoId]
\* this.touchStartPos = null.
NoPos == <<>>

Ref(o) == [oid |-> o.oid, id |-> o.id]

Abs(a) == IF a < 0 THEN -a ELSE a
Min(a, b) == IF a < b THEN a ELSE b
Max(a, b) == IF a < b THEN b ELSE a

(***************************************************************************)
(* Input universes.                                                        *)
(***************************************************************************)
NodeIds == {"A", "B", "C"}
PointerIds == {1, 2, 3}
PrimaryPointers == {1, 2}
CanvasCenter == <<60, 60>>
ScreenPts == {<<0, 60>>, <<3, 60>>, <<60, 60>>, <<60, 0>>}
WorldSeq == <<(<<0, 60>>), (<<120, 60>>), (<<60, 60>>)>>
WorldPts == {WorldSeq[i] : i \in 1..Len(WorldSeq)}
Identity == [x |-> 0, y |-> 0, kNum |-> 1, kDen |-> 1]
ZoomedOut == [x |-> 0, y |-> 30, kNum |-> 1, kDen |-> 2]
Transforms == {Identity, ZoomedOut}

(***************************************************************************)
(* View transform: d3.ZoomTransform with the scale k = kNum / kDen.       *)
(***************************************************************************)
invertX(t, sx) == ((sx - t.x) * t.kDen) \div t.kNum
invertY(t, sy) == ((sy - t.y) * t.kDen) \div t.kNum

\* _getPointerPos: the screen position of the event and its world position.
GetPointerPos(t, s) ==
    [screenX |-> s[1], screenY |-> s[2],
     worldX |-> invertX(t, s[1]), worldY |-> invertY(t, s[2])]

(***************************************************************************)
(* Hit testing.                                                            *)
(***************************************************************************)
\* A loop in which a node as near as the nearest so far replaces it.
RECURSIVE ScanNodesFirstWins(_, _, _, _, _, _)
ScanNodesFirstWins(ns, worldX, worldY, i, closest, minDistSq) ==
    IF i = 0 THEN closest
    ELSE LET dx == worldX - ns[i].x
             dy == worldY - ns[i].y
             distSq == dx * dx + dy * dy
         IN IF distSq < selectionRadius * selectionRadius
               /\ (closest = 0 \/ distSq <= minDistSq)
            THEN ScanNodesFirstWins(ns, worldX, worldY, i - 1, i, distSq)
            ELSE ScanNodesFirstWins(ns, worldX, worldY, i - 1, closest, minDistSq)

\* The loop of _getNodeAtPos from index i down to 1; closest = 0 stands for
\* closestNode = null with minDistSq = Infinity.
RECURSIVE ScanNodes(_, _, _, _, _, _)
ScanNodes(ns, worldX, worldY, i, closest, minDistSq) ==
    IF i = 0 THEN closest
    ELSE LET dx == worldX - ns[i].x
             dy == worldY - ns[i].y
             distSq == dx * dx + dy * dy
         IN IF distSq < selectionRadius * selectionRadius
               /\ (closest = 0 \/ distSq < minDistSq)
            THEN ScanNodes(ns, worldX, worldY, i - 1, i, distSq)
            ELSE ScanNodes(ns, worldX, worldY, i - 1, closest, minDistSq)

\* _getNodeAtPos: the index in ns of the node hit, 0 when none is.
GetNodeAtPos(ns, worldX, worldY) == ScanNodes(ns, worldX, worldY, Len(ns), 0, 0)

RECURSIVE GCD(_, _)
GCD(a, b) == IF b = 0 THEN a ELSE GCD(b, a % b)

\* The node object an endpoint reference (an oid) points to.
NodeByOid(ns, o) == ns[CHOOSE i \in 1..Len(ns) : ns[i].oid = o]
HasOid(ns, o) == \E i \in 1..Len(ns) : ns[i].oid = o

\* A segment test whose tolerance is linkTolerance in world units at every
\* scale.
SegmentHitWorldTolerance(t, p0, p1, worldX, worldY) ==
    LET dx == p1.x - p0.x
        dy == p1.y - p0.y
        lengthSq == dx * dx + dy * dy
        dot == (worldX - p0.x) * dx + (worldY - p0.y) * dy
        c == Max(0, Min(lengthSq, dot))
        g == GCD(lengthSq, c)
        tn == c \div g
        td == lengthSq \div g
        vx == (worldX - p0.x) * td - tn * dx
        vy == (worldY - p0.y) * td - tn * dy
        bound == linkTolerance * td
    IN /\ lengthSq # 0
       /\ vx * vx + vy * vy < bound * bound

\* The body of the loop of _getLinkAtPos for one link with endpoints p0, p1:
\* the projection parameter t = c / lengthSq is kept as the exact fraction
\* tn / td, and distSq < tolerance^2 with tolerance = 5 / k is compared after
\* multiplying both sides by (td * kNum)^2.
SegmentHit(t, p0, p1, worldX, worldY) ==
    LET dx == p1.x - p0.x
        dy == p1.y - p0.y
        lengthSq == dx * dx + dy * dy
        dot == (worldX - p0.x) * dx + (worldY - p0.y) * dy
        c == Max(0, Min(lengthSq, dot))
        g == GCD(lengthSq, c)
        tn == c \div g
        td == lengthSq \div g
        vx == (worldX - p0.x) * td - tn * dx
        vy == (worldY - p0.y) * td - tn * dy
        bound == linkTolerance * t.kDen * td
    IN /\ lengthSq # 0
       /\ Abs(vx) * t.kNum < bound
       /\ Abs(vy) * t.kNum < bound
       /\ (vx * vx + vy * vy) * t.kNum * t.kNum < bound * bound

\* The loop of _getLinkAtPos from index i down to 1.
RECURSIVE ScanLinks(_, _, _, _, _, _)
ScanLinks(ls, ns, t, worldX, worldY, i) ==
    IF i = 0 THEN 0
    ELSE IF /\ HasOid(ns, ls[i].source)
            /\ HasOid(ns, ls[i].target)
            /\ SegmentHit(t, NodeByOid(ns, ls[i].source),
                          NodeByOid(ns, ls[i].target), worldX, worldY)
         THEN i
         ELSE ScanLinks(ls, ns, t, worldX, worldY, i - 1)

\* _getLinkAtPos: the index in ls of the link hit, 0 when none is.
GetLinkAtPos(ls, ns, t, worldX, worldY) == ScanLinks(ls, ns, t, worldX, worldY, Len(ls))

(***************************************************************************)
(* Object identity: the n smallest object ids not in used.                *)
(***************************************************************************)
RECURSIVE FreshFrom(_, _, _)
FreshFrom(used, n, k) ==
    IF n = 0 THEN <<>>
    ELSE IF k \in used THEN FreshFrom(used, n, k + 1)
         ELSE <<k>> \o FreshFrom(used, n - 1, k + 1)
FreshOids(used, n) == FreshFrom(used, n, 1)

NodeOids(ns) == {ns[i].oid : i \in 1..Len(ns)}
LinkOids(ls) == {ls[i].oid : i \in 1..Len(ls)}
OidSeq(objs) == [i \in 1..Len(objs) |-> objs[i].oid]

\* A findIndex that gives the last index when the id is absent.
FindIndexOrLast(ns, id) ==
    IF \E i \in 1..Len(ns) : ns[i].id = id
    THEN CHOOSE i \in 1..Len(ns) : ns[i].id = id /\ \A j \in 1..(i - 1) : ns[j].id # id
    ELSE Len(ns)

\* Array.prototype.findIndex / find by id: the first index, 0 when absent.
FindIndex(ns, id) ==
    IF \E i \in 1..Len(ns) : ns[i].id = id
    THEN CHOOSE i \in 1..Len(ns) : ns[i].id = id /\ \A j \in 1..(i - 1) : ns[j].id # id
    ELSE 0

\* new Map(nodes.map(n => [n.id, n])).get(id), as in updateData and in d3's
\* link force: the last node with that id wins, 0 when absent.
MapGet(ns, id) ==
    IF \E i \in 1..Len(ns) : ns[i].id = id
    THEN CHOOSE i \in 1..Len(ns) : ns[i].id = id /\ \A j \in (i + 1)..Len(ns) : ns[j].id # id
    ELSE 0

\* A splice that always takes out the last element.
RemoveLast(seq, i) == SubSeq(seq, 1, Len(seq) - 1)

\* Array.prototype.splice(i, 1) and filter.
RemoveAt(seq, i) == [j \in 1..(Len(seq) - 1) |-> IF j < i THEN seq[j] ELSE seq[j + 1]]

(***************************************************************************)
(* The d3 simulation: alpha and alphaTarget in thousandths.                *)
(***************************************************************************)
alphaMin == 1

\* A restart that hands the simulation no collections.
ReheatOnly(sim, ns, ls, a) == [sim EXCEPT !.alpha = a, !.running = TRUE]

\* simulation.nodes(ns), force("link").links(ls), alpha(a).restart()
Reheat(sim, ns, ls, a) ==
    [sim EXCEPT !.nodes = OidSeq(ns), !.links = OidSeq(ls), !.alpha = a, !.running = TRUE]

\* The position d3 gives the i-th node that arrives without coordinates.
InitialPlacement(i) == WorldSeq[((i - 1) % Len(WorldSeq)) + 1]

(***************************************************************************)
(* Selection.                                                              *)
(***************************************************************************)
\* A call a handler makes: _performSelection(x, y), a listener
\* (onNodeClick, onLinkClick, onNodeDrag) with the id of the node or link it
\* is handed (NoId for null).
Emit(call, id) == [call |-> call, id |-> id, x |-> null, y |-> null]
PerformSelectionCall(worldX, worldY) ==
    [call |-> "_performSelection", id |-> NoId, x |-> worldX, y |-> worldY]

\* A clearing that never clears the link selection.
ClearSelectionsKeepLink(sel, clearNode, clearLink) ==
    LET n == clearNode /\ sel.selectedNode # NoNode
    IN [selectedNode |-> IF n THEN NoNode ELSE sel.selectedNode,
        selectedLink |-> sel.selectedLink,
        calls |-> sel.calls \o (IF n THEN <<Emit("onNodeClick", NoId)>> ELSE <<>>)]

\* A clearing that never clears the node selection.
ClearSelectionsKeepNode(sel, clearNode, clearLink) ==
    LET l == clearLink /\ sel.selectedLink # NoLink
    IN [selectedNode |-> sel.selectedNode,
        selectedLink |-> IF l THEN NoLink ELSE sel.selectedLink,
        calls |-> sel.calls \o (IF l THEN <<Emit("onLinkClick", NoId)>> ELSE <<>>)]

\* A clearing that tells no listener.
ClearSelectionsSilent(sel, clearNode, clearLink) ==
    [selectedNode |-> IF clearNode THEN NoNode ELSE sel.selectedNode,
     selectedLink |-> IF clearLink THEN NoLink ELSE sel.selectedLink,
     calls |-> sel.calls]

\* _clearSelections({clearNode, clearLink}) on the selection sel, which
\* carries the listener calls made so far.
ClearSelections(sel, clearNode, clearLink) ==
    LET n == clearNode /\ sel.selectedNode # NoNode
        l == clearLink /\ sel.selectedLink # NoLink
    IN [selectedNode |-> IF n THEN NoNode ELSE sel.selectedNode,
        selectedLink |-> IF l THEN NoLink ELSE sel.selectedLink,
        calls |-> sel.calls
                  \o (IF n THEN <<Emit("onNodeClick", NoId)>> ELSE <<>>)
                  \o (IF l THEN <<Emit("onLinkClick", NoId)>> ELSE <<>>)]

Selection == [selectedNode |-> selectedNode, selectedLink |-> selectedLink,
              calls |-> <<>>]

\* A selection that selects the node it hits even when it is selected.
PerformSelectionNoToggle(worldX, worldY, done) ==
    LET clickedNode == GetNodeAtPos(nodes, worldX, worldY)
        clickedLink == GetLinkAtPos(links, nodes, currentTransform, worldX, worldY)
        s0 == [Selection EXCEPT
                  !.calls = done \o <<PerformSelectionCall(worldX, worldY)>>]
    IN IF clickedNode # 0
       THEN [ClearSelections(s0, FALSE, TRUE) EXCEPT
                !.selectedNode = Ref(nodes[clickedNode]),
                !.calls = @ \o <<Emit("onNodeClick", nodes[clickedNode].id)>>]
       ELSE IF clickedLink # 0
            THEN [ClearSelections(s0, TRUE, FALSE) EXCEPT
                     !.selectedLink = Ref(links[clickedLink]),
                     !.calls = @ \o <<Emit("onLinkClick", links[clickedLink].id)>>]
            ELSE ClearSelections(s0, TRUE, TRUE)

\* A selection that tests the links first and the nodes only when no link
\* is hit.
PerformSelectionLinkFirst(worldX, worldY, done) ==
    LET clickedNode == GetNodeAtPos(nodes, worldX, worldY)
        clickedLink == GetLinkAtPos(links, nodes, currentTransform, worldX, worldY)
        s0 == [Selection EXCEPT
                  !.calls = done \o <<PerformSelectionCall(worldX, worldY)>>]
    IN IF clickedLink # 0
       THEN LET s1 == ClearSelections(s0, TRUE, FALSE)
                l == IF s1.selectedLink.oid = links[clickedLink].oid
                     THEN NoLink
                     ELSE Ref(links[clickedLink])
            IN [s1 EXCEPT !.selectedLink = l,
                          !.calls = @ \o <<Emit("onLinkClick", l.id)>>]
       ELSE IF clickedNode # 0
            THEN LET s1 == ClearSelections(s0, FALSE, TRUE)
                     n == IF s1.selectedNode # NoNode
                             /\ s1.selectedNode.id = nodes[clickedNode].id
                          THEN NoNode
                          ELSE Ref(nodes[clickedNode])
                 IN [s1 EXCEPT !.selectedNode = n,
                               !.calls = @ \o <<Emit("onNodeClick", n.id)>>]
            ELSE ClearSelections(s0, TRUE, TRUE)

\* _performSelection(worldX, worldY) after the calls done: the selection it
\* leaves and the calls made.
PerformSelection(worldX, worldY, done) ==
    LET clickedNode == GetNodeAtPos(nodes, worldX, worldY)
        clickedLink == GetLinkAtPos(links, nodes, currentTransform, worldX, worldY)
        s0 == [Selection EXCEPT
                  !.calls = done \o <<PerformSelectionCall(worldX, worldY)>>]
    IN IF clickedNode # 0
       THEN LET s1 == ClearSelections(s0, FALSE, TRUE)
                n == IF s1.selectedNode # NoNode
                        /\ s1.selectedNode.id = nodes[clickedNode].id
                     THEN NoNode
                     ELSE Ref(nodes[clickedNode])
            IN [s1 EXCEPT !.selectedNode = n,
                          !.calls = @ \o <<Emit("onNodeClick", n.id)>>]
       ELSE IF clickedLink # 0
            THEN LET s1 == ClearSelections(s0, TRUE, FALSE)
                     l == IF s1.selectedLink.oid = links[clickedLink].oid
                          THEN NoLink
                          ELSE Ref(links[clickedLink])
                 IN [s1 EXCEPT !.selectedLink = l,
                               !.calls = @ \o <<Emit("onLinkClick", l.id)>>]
            ELSE ClearSelections(s0, TRUE, TRUE)

(***************************************************************************)
(* The store: addNode, its settle timer, removeNode, updateData.           *)
(***************************************************************************)
pointerVars == <<draggingNode, wasDragging, currentTransform, activePointers,
                 primaryPointerId, now>>

ViewCenter == <<invertX(currentTransform, CanvasCenter[1]),
                invertY(currentTransform, CanvasCenter[2])>>

\* base + (Math.random() - 0.5) * range on both axes, range = rangeNum / rangeDen.
Jitter(p, base, rangeNum, rangeDen) ==
    \A a \in 1..2 :
        /\ -rangeNum <= 2 * (p[a] - base[a]) * rangeDen
        /\ 2 * (p[a] - base[a]) * rangeDen < rangeNum

\* The initial positions addNode can choose for a new node.
InitialPositions(connectToNodeId) ==
    LET ti == FindIndex(nodes, connectToNodeId)
    IN IF connectToNodeId # NoId
       THEN IF ti # 0
            THEN LET base == <<nodes[ti].x, nodes[ti].y>>
                 IN {p \in WorldPts \cup {base} : Jitter(p, base, 20, 1)}
            ELSE {ViewCenter}
       ELSE {p \in WorldPts \cup {ViewCenter} :
                Jitter(p, ViewCenter, 50 * currentTransform.kDen, currentTransform.kNum)}

\* What d3's link force makes of the link addNode pushes with bare ids.
NewLink(ns, ls, sourceId, targetId) ==
    [oid |-> FreshOids(LinkOids(ls) \cup {selectedLink.oid}, 1)[1],
     id |-> "edge_" \o ToString(Len(ls)),
     source |-> ns[MapGet(ns, sourceId)].oid,
     target |-> ns[MapGet(ns, targetId)].oid]

\* A membership test that looks at the first node only.
IdExistsFirstOnly(ns, id) == Len(ns) > 0 /\ ns[1].id = id

\* this.nodes.find(n => n.id === id), as a truth value.
IdExists(ns, id) == FindIndex(ns, id) # 0

\* addNode(newNode, connectToNodeId) with newNode.id = newId.
AddNode(newId, connectToNodeId) ==
    /\ IF newId = NoId
       THEN /\ emitted' = <<Emit("console.error: ID required", NoId)>>
            /\ UNCHANGED <<nodes, links, selectedNode, selectedLink, simulation,
                           timers, pointerVars>>
       ELSE IF IdExists(nodes, newId)
       THEN /\ emitted' = <<Emit("console.warn: ID exists", NoId)>>
            /\ UNCHANGED <<nodes, links, selectedNode, selectedLink, simulation,
                           timers, pointerVars>>
       ELSE \E p \in InitialPositions(connectToNodeId) :
               LET completeNewNode ==
                       [oid |-> FreshOids(NodeOids(nodes)
                                    \cup {selectedNode.oid, draggingNode.oid}, 1)[1],
                        id |-> newId, x |-> p[1], y |-> p[2], fx |-> p[1], fy |-> p[2]]
                   ns == Append(nodes, completeNewNode)
                   targetNodeExists == connectToNodeId # NoId /\ IdExists(ns, connectToNodeId)
                   ls == IF targetNodeExists
                         THEN Append(links, NewLink(ns, links, newId, connectToNodeId))
                         ELSE links
               IN /\ Len(ns) <= MaxNodes
                  /\ Len(ls) <= MaxLinks
                  /\ Len(timers) < MaxTimers
                  /\ nodes' = ns
                  /\ links' = ls
                  /\ simulation' = Reheat(simulation, ns, ls, 300)
                  /\ timers' = Append(timers, newId)
                  /\ emitted' = IF connectToNodeId # NoId /\ ~targetNodeExists
                                THEN <<Emit("console.warn: Target node not found", NoId)>>
                                ELSE <<>>
                  /\ UNCHANGED <<selectedNode, selectedLink, pointerVars>>

\* A callback that restarts the simulation and leaves the node pinned.
SettleTimerKeepsPin ==
    /\ emitted' = <<>>
    /\ timers # <<>>
    /\ simulation' = IF simulation.alpha < alphaMin
                     THEN [simulation EXCEPT !.alpha = 100, !.running = TRUE]
                     ELSE simulation
    /\ timers' = Tail(timers)
    /\ UNCHANGED <<nodes, links, selectedNode, selectedLink, pointerVars>>

\* The callback addNode hands to setTimeout, for the oldest pending timer.
SettleTimer ==
    /\ emitted' = <<>>
    /\ timers # <<>>
    /\ LET i == FindIndex(nodes, Head(timers))
       IN nodes' = IF i # 0
                   THEN [nodes EXCEPT ![i].fx = null, ![i].fy = null]
                   ELSE nodes
    /\ simulation' = IF simulation.alpha < alphaMin
                     THEN [simulation EXCEPT !.alpha = 100, !.running = TRUE]
                     ELSE simulation
    /\ timers' = Tail(timers)
    /\ UNCHANGED <<links, selectedNode, selectedLink, pointerVars>>

\* A filter that takes out only the links that end at the removed node.
FilterLinksTargetOnly(ls, removedOid, i) ==
    SelectSeq(SubSeq(ls, i, Len(ls)), LAMBDA l : l.target # removedOid)

\* A filter that takes out only the links that start at the removed node.
FilterLinksSourceOnly(ls, removedOid, i) ==
    SelectSeq(SubSeq(ls, i, Len(ls)), LAMBDA l : l.source # removedOid)

\* links.filter(l => !isAffected) of removeNode, from index i on.
RECURSIVE FilterLinks(_, _, _)
FilterLinks(ls, removedOid, i) ==
    IF i > Len(ls) THEN <<>>
    ELSE IF ls[i].source = removedOid \/ ls[i].target = removedOid
         THEN FilterLinks(ls, removedOid, i + 1)
         ELSE <<ls[i]>> \o FilterLinks(ls, removedOid, i + 1)

\* removeNode(nodeId).
RemoveNode(nodeId) ==
    /\ LET nodeIndex == FindIndex(nodes, nodeId)
       IN IF nodeIndex = 0
          THEN /\ emitted' = <<>>
               /\ UNCHANGED <<nodes, links, selectedNode, selectedLink, simulation,
                              timers, pointerVars>>
          ELSE LET s1 == IF selectedNode # NoNode /\ selectedNode.id = nodeId
                         THEN ClearSelections(Selection, TRUE, FALSE)
                         ELSE Selection
                   nodeToRemove == nodes[nodeIndex]
                   ns == RemoveAt(nodes, nodeIndex)
                   ls == FilterLinks(links, nodeToRemove.oid, 1)
                   s2 == IF \E i \in 1..Len(links) :
                               /\ links[i].source = nodeToRemove.oid
                                  \/ links[i].target = nodeToRemove.oid
                               /\ s1.selectedLink.oid = links[i].oid
                         THEN ClearSelections(s1, FALSE, TRUE)
                         ELSE s1
               IN /\ nodes' = ns
                  /\ links' = ls
                  /\ selectedNode' = s2.selectedNode
                  /\ selectedLink' = s2.selectedLink
                  /\ emitted' = s2.calls
                  /\ simulation' = Reheat(simulation, ns, ls, 100)
                  /\ UNCHANGED <<timers, pointerVars>>

\* The id an endpoint of an input link names: the string itself, or the id
\* property of a node-shaped object.
EndpointId(e) == IF e.type = "string" THEN e.str ELSE e.obj.id

\* A resolution that gives up at the first link it cannot resolve.
ResolveLinksUntilDrop(newLinks, ns, i, oids) ==
    LET Resolved(l) == /\ MapGet(ns, EndpointId(l.source)) # 0
                       /\ MapGet(ns, EndpointId(l.target)) # 0
        rest == SubSeq(newLinks, i, Len(newLinks))
        n == IF \A j \in 1..Len(rest) : Resolved(rest[j]) THEN Len(rest)
             ELSE (CHOOSE j \in 1..Len(rest) :
                      ~Resolved(rest[j]) /\ \A h \in 1..(j - 1) : Resolved(rest[h])) - 1
    IN [j \in 1..n |->
           [oid |-> oids[j], id |-> rest[j].id,
            source |-> ns[MapGet(ns, EndpointId(rest[j].source))].oid,
            target |-> ns[MapGet(ns, EndpointId(rest[j].target))].oid]]

\* links.map(resolve).filter(l => l.source && l.target) of updateData, from
\* index i on, with the object ids still to hand out.
RECURSIVE ResolveLinks(_, _, _, _)
ResolveLinks(newLinks, ns, i, oids) ==
    IF i > Len(newLinks) THEN <<>>
    ELSE LET resolvedSource == MapGet(ns, EndpointId(newLinks[i].source))
             resolvedTarget == MapGet(ns, EndpointId(newLinks[i].target))
         IN IF resolvedSource # 0 /\ resolvedTarget # 0
            THEN <<[oid |-> Head(oids), id |-> newLinks[i].id,
                    source |-> ns[resolvedSource].oid,
                    target |-> ns[resolvedTarget].oid]>>
                 \o ResolveLinks(newLinks, ns, i + 1, Tail(oids))
            ELSE ResolveLinks(newLinks, ns, i + 1, oids)

\* updateData(newNodes, newLinks): newNodes is the sequence of the ids of the
\* input nodes, newLinks the sequence of input links [id, source, target].
UpdateData(newNodes, newLinks) ==
    /\ LET s1 == ClearSelections(Selection, TRUE, TRUE)
           oids == FreshOids({draggingNode.oid}, Len(newNodes))
           ns == [i \in 1..Len(newNodes) |->
                     [oid |-> oids[i], id |-> newNodes[i],
                      x |-> InitialPlacement(i)[1], y |-> InitialPlacement(i)[2],
                      fx |-> null, fy |-> null]]
           ls == ResolveLinks(newLinks, ns, 1, FreshOids({}, Len(newLinks)))
       IN /\ nodes' = ns
          /\ links' = ls
          /\ selectedNode' = s1.selectedNode
          /\ selectedLink' = s1.selectedLink
          /\ emitted' = s1.calls
          /\ simulation' = Reheat(simulation, ns, ls, 1000)
          /\ UNCHANGED <<timers, pointerVars>>

(***************************************************************************)
(* Pointer handlers.                                                       *)
(***************************************************************************)
storeVars == <<links, timers>>

\* node.fx = fx; node.fy = fy on the node object oid, when it is in the store.
Pin(ns, oid, fx, fy) ==
    [i \in 1..Len(ns) |->
        IF ns[i].oid = oid THEN [ns[i] EXCEPT !.fx = fx, !.fy = fy] ELSE ns[i]]

\* _handlePointerDown for an event of pointer pointerId at screen position s.
HandlePointerDown(pointerId, s) ==
    /\ IF pointerId \notin PrimaryPointers
       THEN /\ emitted' = <<>>
            /\ UNCHANGED <<nodes, selectedNode, selectedLink, simulation, storeVars,
                           pointerVars>>
       ELSE LET pos == GetPointerPos(currentTransform, s)
                node == GetNodeAtPos(nodes, pos.worldX, pos.worldY)
            IN /\ activePointers' =
                      (pointerId :> [startX |-> pos.screenX, startY |-> pos.screenY,
                                     startTime |-> now]) @@ activePointers
               /\ IF node # 0
                  THEN /\ primaryPointerId' = pointerId
                       /\ draggingNode' = Ref(nodes[node])
                       /\ nodes' = Pin(nodes, nodes[node].oid, pos.worldX, pos.worldY)
                       /\ simulation' = [simulation EXCEPT !.alphaTarget = 300,
                                                           !.running = TRUE]
                       /\ emitted' = <<Emit("onNodeDrag: start", nodes[node].id)>>
                  ELSE /\ emitted' = <<>>
                       /\ UNCHANGED <<primaryPointerId, draggingNode, nodes,
                                      simulation>>
               /\ wasDragging' = FALSE
               /\ UNCHANGED <<selectedNode, selectedLink, storeVars, currentTransform,
                              now>>

\* _handlePointerMove.
HandlePointerMove(pointerId, s) ==
    /\ IF draggingNode = NoNode \/ pointerId # primaryPointerId
       THEN /\ emitted' = <<>>
            /\ UNCHANGED <<nodes, selectedNode, selectedLink, simulation, storeVars,
                           pointerVars>>
       ELSE LET pos == GetPointerPos(currentTransform, s)
            IN /\ nodes' = Pin(nodes, draggingNode.oid, pos.worldX, pos.worldY)
               /\ wasDragging' = TRUE
               /\ emitted' = <<Emit("onNodeDrag: drag", draggingNode.id)>>
               /\ UNCHANGED <<selectedNode, selectedLink, simulation, storeVars,
                              draggingNode, currentTransform, activePointers,
                              primaryPointerId, now>>

\* A tap test that does not look at wasDragging.
IsTapIgnoringDrag(pointerId, s) ==
    /\ pointerId \in DOMAIN activePointers
    /\ pointerId \in PrimaryPointers
    /\ LET pointerInfo == activePointers[pointerId]
           dx == s[1] - pointerInfo.startX
           dy == s[2] - pointerInfo.startY
       IN /\ now - pointerInfo.startTime < tapTimeout
          /\ dx * dx + dy * dy < tapThreshold * tapThreshold

\* A tap test that does not look at the time since the press.
IsTapIgnoringTime(pointerId, s) ==
    /\ pointerId \in DOMAIN activePointers
    /\ ~wasDragging
    /\ pointerId \in PrimaryPointers
    /\ LET pointerInfo == activePointers[pointerId]
           dx == s[1] - pointerInfo.startX
           dy == s[2] - pointerInfo.startY
       IN dx * dx + dy * dy < tapThreshold * tapThreshold

\* The test of _handlePointerUp that makes a release a tap.
IsTap(pointerId, s) ==
    /\ pointerId \in DOMAIN activePointers
    /\ ~wasDragging
    /\ pointerId \in PrimaryPointers
    /\ LET pos == GetPointerPos(currentTransform, s)
           pointerInfo == activePointers[pointerId]
           timeElapsed == now - pointerInfo.startTime
           dx == pos.screenX - pointerInfo.startX
           dy == pos.screenY - pointerInfo.startY
       IN /\ timeElapsed < tapTimeout
          /\ dx * dx + dy * dy < tapThreshold * tapThreshold

\* A release that ends the drag and leaves alphaTarget as it is.
HandlePointerUpKeepsTarget(pointerId, s) ==
    LET pos == GetPointerPos(currentTransform, s)
        dragEnds == draggingNode # NoNode /\ pointerId = primaryPointerId
        done == IF dragEnds THEN <<Emit("onNodeDrag: end", draggingNode.id)>> ELSE <<>>
        sel == IF IsTap(pointerId, s)
               THEN PerformSelection(pos.worldX, pos.worldY, done)
               ELSE [Selection EXCEPT !.calls = done]
    IN /\ IF dragEnds
          THEN /\ simulation' = simulation
               /\ nodes' = IF selectedNode = NoNode \/ selectedNode.id # draggingNode.id
                           THEN Pin(nodes, draggingNode.oid, null, null)
                           ELSE nodes
               /\ draggingNode' = NoNode
               /\ primaryPointerId' = null
          ELSE UNCHANGED <<simulation, nodes, draggingNode, primaryPointerId>>
       /\ emitted' = sel.calls
       /\ selectedNode' = sel.selectedNode
       /\ selectedLink' = sel.selectedLink
       /\ activePointers' = [q \in DOMAIN activePointers \ {pointerId} |->
                                activePointers[q]]
       /\ wasDragging' = FALSE
       /\ UNCHANGED <<storeVars, currentTransform, now>>

\* A release that ends the drag and leaves primaryPointerId as it is.
HandlePointerUpKeepsPrimary(pointerId, s) ==
    LET pos == GetPointerPos(currentTransform, s)
        dragEnds == draggingNode # NoNode /\ pointerId = primaryPointerId
        done == IF dragEnds THEN <<Emit("onNodeDrag: end", draggingNode.id)>> ELSE <<>>
        sel == IF IsTap(pointerId, s)
               THEN PerformSelection(pos.worldX, pos.worldY, done)
               ELSE [Selection EXCEPT !.calls = done]
    IN /\ IF dragEnds
          THEN /\ simulation' = [simulation EXCEPT !.alphaTarget = 0]
               /\ nodes' = IF selectedNode = NoNode \/ selectedNode.id # draggingNode.id
                           THEN Pin(nodes, draggingNode.oid, null, null)
                           ELSE nodes
               /\ draggingNode' = NoNode
               /\ primaryPointerId' = primaryPointerId
          ELSE UNCHANGED <<simulation, nodes, draggingNode, primaryPointerId>>
       /\ emitted' = sel.calls
       /\ selectedNode' = sel.selectedNode
       /\ selectedLink' = sel.selectedLink
       /\ activePointers' = [q \in DOMAIN activePointers \ {pointerId} |->
                                activePointers[q]]
       /\ wasDragging' = FALSE
       /\ UNCHANGED <<storeVars, currentTransform, now>>

\* _handlePointerUp.
HandlePointerUp(pointerId, s) ==
    LET pos == GetPointerPos(currentTransform, s)
        dragEnds == draggingNode # NoNode /\ pointerId = primaryPointerId
        done == IF dragEnds THEN <<Emit("onNodeDrag: end", draggingNode.id)>> ELSE <<>>
        sel == IF IsTap(pointerId, s)
               THEN PerformSelection(pos.worldX, pos.worldY, done)
               ELSE [Selection EXCEPT !.calls = done]
    IN /\ IF dragEnds
          THEN /\ simulation' = [simulation EXCEPT !.alphaTarget = 0]
               /\ nodes' = IF selectedNode = NoNode \/ selectedNode.id # draggingNode.id
                           THEN Pin(nodes, draggingNode.oid, null, null)
                           ELSE nodes
               /\ draggingNode' = NoNode
               /\ primaryPointerId' = null
          ELSE UNCHANGED <<simulation, nodes, draggingNode, primaryPointerId>>
       /\ emitted' = sel.calls
       /\ selectedNode' = sel.selectedNode
       /\ selectedLink' = sel.selectedLink
       /\ activePointers' = [q \in DOMAIN activePointers \ {pointerId} |->
                                activePointers[q]]
       /\ wasDragging' = FALSE
       /\ UNCHANGED <<storeVars, currentTransform, now>>

\* _handlePointerCancel.
HandlePointerCancel(pointerId, s) == HandlePointerUp(pointerId, s)

\* _handlePointerLeave.
HandlePointerLeave(pointerId, s) ==
    IF draggingNode # NoNode /\ pointerId = primaryPointerId
    THEN HandlePointerUp(pointerId, s)
    ELSE /\ emitted' = <<>>
         /\ UNCHANGED <<nodes, selectedNode, selectedLink, simulation, storeVars,
                        pointerVars>>

\* _handleClick for a click event at screen position s.
HandleClick(s, defaultPrevented) ==
    LET pos == GetPointerPos(currentTransform, s)
        runs == ~defaultPrevented /\ ~wasDragging
        sel == IF runs THEN PerformSelection(pos.worldX, pos.worldY, <<>>) ELSE Selection
    IN /\ wasDragging' = IF defaultPrevented THEN wasDragging ELSE FALSE
       /\ emitted' = sel.calls
       /\ selectedNode' = sel.selectedNode
       /\ selectedLink' = sel.selectedLink
       /\ UNCHANGED <<nodes, simulation, storeVars, draggingNode, currentTransform,
                      activePointers, primaryPointerId, now>>

\* A listener that takes the transform of every zoom event.
HandleZoomWhileDragging(t) ==
    /\ emitted' = <<>>
    /\ currentTransform' = t
    /\ UNCHANGED <<nodes, selectedNode, selectedLink, simulation, storeVars,
                   draggingNode, wasDragging, activePointers, primaryPointerId, now>>

\* The "zoom" listener of _setupZoom for an event carrying the transform t.
HandleZoom(t) ==
    /\ emitted' = <<>>
    /\ currentTransform' = IF draggingNode # NoNode THEN currentTransform ELSE t
    /\ UNCHANGED <<nodes, selectedNode, selectedLink, simulation, storeVars,
                   draggingNode, wasDragging, activePointers, primaryPointerId, now>>

(***************************************************************************)
(* The environment: the d3 simulation's timer and the clock.               *)
(***************************************************************************)
\* The values alpha can take after a tick: it decays towards alphaTarget,
\* here either by less than the model tells apart or all the way; 0 stands
\* for a value below alphaMin.
DecayedAlpha(sim) == {sim.alpha, sim.alphaTarget}

\* One step of the simulation's timer: every pinned node is put at its pinned
\* position, the forces move at most one other node (to a point of Pts), alpha
\* decays, and the timer stops once alpha is below alphaMin.
SimTick(Pts) ==
    /\ simulation.running
    /\ emitted' = <<>>
    /\ \E a \in DecayedAlpha(simulation) \ {x \in {0} : simulation.alphaTarget >= alphaMin}, m \in 0..Len(nodes), p \in Pts \cup {WorldSeq[1]} :
          /\ m = 0 => p = WorldSeq[1]
          /\ m # 0 => p \in Pts /\ nodes[m].fx = null /\ <<nodes[m].x, nodes[m].y>> # p
          /\ nodes' = [i \in 1..Len(nodes) |->
                          IF nodes[i].fx # null
                          THEN [nodes[i] EXCEPT !.x = nodes[i].fx, !.y = nodes[i].fy]
                          ELSE IF i = m
                               THEN [nodes[i] EXCEPT !.x = p[1], !.y = p[2]]
                               ELSE nodes[i]]
          /\ simulation' = [simulation EXCEPT !.alpha = a, !.running = (a >= alphaMin)]
    /\ UNCHANGED <<selectedNode, selectedLink, storeVars, pointerVars>>

TimeStep == tapTimeout

\* Time passes; the settle timers of addNode (100 ms) are due before a step
\* of the clock (200 ms) has gone by.
Advance ==
    /\ now < MaxNow * TimeStep
    /\ timers = <<>>
    /\ now' = now + TimeStep
    /\ emitted' = <<>>
    /\ UNCHANGED <<nodes, selectedNode, selectedLink, simulation, storeVars,
                   draggingNode, wasDragging, currentTransform, activePointers,
                   primaryPointerId>>

(***************************************************************************)
(* Construction.                                                           *)
(***************************************************************************)
Str(id) == [type |-> "string", str |-> id, obj |-> [id |-> NoId]]
Obj(id) == [type |-> "object", str |-> NoId, obj |-> [id |-> id]]
InputLink(id, source, target) == [id |-> id, source |-> source, target |-> target]

\* The history of the public operations: the operation called last, the
\* number of links it took out of the store or left out of its input, and
\* the input of updateData.
NoInput == [nodes |-> <<>>, links |-> <<>>]
Call(op, dropped, input) == [op |-> op, dropped |-> dropped, input |-> input]

\* A scale num / den, as the options give minZoom and maxZoom.
Ratio(num, den) == [num |-> num, den |-> den]

\* The canvas element as the constructor sees it: whether getContext('2d')
\* gives a context (or null) and whether the element has a parent.
CanvasElement(context, parentElement) ==
    [context |-> context, parentElement |-> parentElement]
MountedCanvas == CanvasElement(TRUE, TRUE)

\* The zoom limits of the default options: minZoom 0.2, maxZoom 4.
DefaultOptions == [minZoom |-> Ratio(1, 5), maxZoom |-> Ratio(4, 1)]

\* lastCall after a constructor that threw (_setupCanvas).
ConstructorError == "constructor: Error: Canvas parent element not found"

\* this.simulation = null.
NoSimulation == [alpha |-> 0, alphaTarget |-> 0, running |-> FALSE,
                 nodes |-> <<>>, links |-> <<>>]

\* new ForceGraphCanvas(canvasElement, initialNodes, initialLinks, opts): the
\* fields after the constructor.  _init calls _setupCanvas first, which throws
\* when the canvas has no parent: the fields keep what the constructor gave
\* them before (nodes without coordinates, no simulation), and lastCall
\* records the error.  Otherwise d3 places the nodes and its link force
\* resolves the endpoints of the links.
New(canvasElement, initialNodes, initialLinks, opts) ==
    LET mounted == canvasElement.parentElement
        ns == [i \in 1..Len(initialNodes) |->
                  [oid |-> i, id |-> initialNodes[i],
                   x |-> IF mounted THEN InitialPlacement(i)[1] ELSE null,
                   y |-> IF mounted THEN InitialPlacement(i)[2] ELSE null,
                   fx |-> null, fy |-> null]]
        ls == ResolveLinks(initialLinks, ns, 1, FreshOids({}, Len(initialLinks)))
    IN /\ canvas = canvasElement
       /\ options = opts
       /\ transition = FALSE
       /\ touches = <<>>
       /\ touchStartPos = NoPos
       /\ touchStartTime = 0
       /\ nodes = ns
       /\ links = ls
       /\ selectedNode = NoNode
       /\ selectedLink = NoLink
       /\ draggingNode = NoNode
       /\ wasDragging = FALSE
       /\ currentTransform = Identity
       /\ activePointers = <<>>
       /\ primaryPointerId = null
       /\ simulation = IF mounted
                       THEN [alpha |-> 1000, alphaTarget |-> 0, running |-> TRUE,
                             nodes |-> OidSeq(ns), links |-> OidSeq(ls)]
                       ELSE NoSimulation
       /\ timers = <<>>
       /\ now = 0
       /\ emitted = <<>>
       /\ lastCall = IF mounted
                     THEN Call("constructor", 0, NoInput)
                     ELSE Call(ConstructorError, 0, NoInput)

\* The constructor on a canvas that is in the document, with the default
\* options.
Constructed(initialNodes, initialLinks) ==
    New(MountedCanvas, initialNodes, initialLinks, DefaultOptions)

Init ==
    Constructed(<<"A", "B">>, <<InputLink("edge_1", Str("A"), Str("B"))>>)

(***************************************************************************)
(* The calls and events of the widget.  A call of a public operation is    *)
(* recorded in lastCall; an event of the browser is recorded when track    *)
(* is TRUE and leaves lastCall alone otherwise.                            *)
(***************************************************************************)
\* What no call and no event changes after the constructor.
configVars == <<canvas, options>>
touchVars == <<touches, touchStartPos, touchStartTime>>

\* lastCall after an event other than a release.
Event == Call("event", 0, NoInput)

\* What the press/release pair of a release of pointerId at s measures: the
\* time since the press the widget recorded and the distance from it.
ReleaseKind(pointerId, s) ==
    IF pointerId \notin DOMAIN activePointers
    THEN "release: no press"
    ELSE LET pointerInfo == activePointers[pointerId]
             dx == s[1] - pointerInfo.startX
             dy == s[2] - pointerInfo.startY
         IN IF now - pointerInfo.startTime >= tapTimeout
            THEN "release: late"
            ELSE IF dx * dx + dy * dy >= tapThreshold * tapThreshold
                 THEN "release: far"
                 ELSE "release: near and in time"

DoAddNode(Ids, Targets) ==
    \E id \in Ids, to \in Targets :
        /\ AddNode(id, to)
        /\ lastCall' = Call("addNode", 0, NoInput)
        /\ UNCHANGED <<configVars, transition, touchVars>>

DoSettleTimer ==
    /\ SettleTimer
    /\ UNCHANGED lastCall
    /\ UNCHANGED <<configVars, transition, touchVars>>

DoRemoveNode(Ids) ==
    \E id \in Ids :
        /\ RemoveNode(id)
        /\ lastCall' = Call("removeNode", Len(links) - Len(links'), NoInput)
        /\ UNCHANGED <<configVars, transition, touchVars>>

DoUpdateData(Data) ==
    \E d \in Data :
        /\ UpdateData(d.nodes, d.links)
        /\ lastCall' = Call("updateData", Len(d.links) - Len(links'), d)
        /\ UNCHANGED <<configVars, transition, touchVars>>

DoPointerDown(Pointers, Pts, track) ==
    \E p \in Pointers, s \in Pts :
        /\ HandlePointerDown(p, s)
        /\ lastCall' = IF track THEN Event ELSE lastCall
        /\ UNCHANGED <<configVars, transition, touchVars>>

DoPointerMove(Pointers, Pts, track) ==
    \E p \in Pointers, s \in Pts :
        /\ HandlePointerMove(p, s)
        /\ lastCall' = IF track THEN Event ELSE lastCall
        /\ UNCHANGED <<configVars, transition, touchVars>>

DoPointerUp(Pointers, Pts, track) ==
    \E p \in Pointers, s \in Pts :
        /\ HandlePointerUp(p, s)
        /\ lastCall' = IF track THEN Call(ReleaseKind(p, s), 0, NoInput) ELSE lastCall
        /\ UNCHANGED <<configVars, transition, touchVars>>

DoPointerCancel(Pointers, Pts, track) ==
    \E p \in Pointers, s \in Pts :
        /\ HandlePointerCancel(p, s)
        /\ lastCall' = IF track THEN Call(ReleaseKind(p, s), 0, NoInput) ELSE lastCall
        /\ UNCHANGED <<configVars, transition, touchVars>>

DoPointerLeave(Pointers, Pts, track) ==
    \E p \in Pointers, s \in Pts :
        /\ HandlePointerLeave(p, s)
        /\ lastCall' = IF track THEN Event ELSE lastCall
        /\ UNCHANGED <<configVars, transition, touchVars>>

DoClick(Pts, track) ==
    \E s \in Pts, defaultPrevented \in BOOLEAN :
        /\ HandleClick(s, defaultPrevented)
        /\ lastCall' = IF track THEN Event ELSE lastCall
        /\ UNCHANGED <<configVars, transition, touchVars>>

DoSimTick(Pts, track) ==
    /\ SimTick(Pts)
    /\ lastCall' = IF track THEN Event ELSE lastCall
    /\ UNCHANGED <<configVars, transition, touchVars>>

DoAdvance(track) ==
    /\ Advance
    /\ lastCall' = IF track THEN Event ELSE lastCall
    /\ UNCHANGED <<configVars, transition, touchVars>>

(***************************************************************************)
(* Spec: one pointer taps, drags and clicks while the store is changed by  *)
(* addNode, removeNode and updateData; every release is in time.           *)
(***************************************************************************)
TapPts == {<<0, 60>>, <<60, 60>>}
DragPts == {<<60, 60>>}
StoreIds == {"A", "B"}
Replacement == [nodes |-> <<"A">>, links |-> <<>>]

Next ==
    \/ DoAddNode(StoreIds, {"A"})
    \/ DoSettleTimer
    \/ DoRemoveNode(StoreIds)
    \/ DoUpdateData({Replacement})
    \/ DoPointerDown({1}, TapPts, FALSE)
    \/ DoPointerMove({1}, DragPts, FALSE)
    \/ DoPointerUp({1}, TapPts, FALSE)
    \/ DoPointerCancel({1}, TapPts, FALSE)
    \/ DoPointerLeave({1}, TapPts, FALSE)
    \/ DoClick(TapPts, FALSE)
    \/ DoSimTick({}, FALSE)

Spec == Init /\ [][Next]_vars

(***************************************************************************)
(* SpecGesture: the gestures of a primary pointer and of one that is not,  *)
(* on a store that no call changes.                                        *)
(***************************************************************************)
GesturePointers == {1, 3}

NextGesture ==
    \/ DoPointerDown(GesturePointers, ScreenPts, TRUE)
    \/ DoPointerMove(GesturePointers, ScreenPts, TRUE)
    \/ DoPointerUp(GesturePointers, ScreenPts, TRUE)
    \/ DoPointerCancel(GesturePointers, ScreenPts, TRUE)
    \/ DoPointerLeave(GesturePointers, ScreenPts, TRUE)
    \/ DoClick(ScreenPts, TRUE)
    \/ DoSimTick({}, TRUE)
    \/ DoAdvance(TRUE)

SpecGesture == Init /\ [][NextGesture]_vars

(***************************************************************************)
(* SpecStore: the public operations alone, on every id and dataset.        *)
(***************************************************************************)
Datasets ==
    {[nodes |-> <<"A">>, links |-> <<>>],
     [nodes |-> <<"A", "B">>, links |-> <<InputLink("e1", Str("A"), Obj("B"))>>],
     [nodes |-> <<"B", "B">>, links |-> <<InputLink("e1", Str("B"), Str("C"))>>],
     [nodes |-> <<"A", "B", "B">>, links |-> <<InputLink("e1", Str("A"), Str("B"))>>]}

NextStore ==
    \/ DoAddNode(NodeIds \cup {NoId}, NodeIds \cup {NoId})
    \/ DoSettleTimer
    \/ DoRemoveNode(NodeIds)
    \/ DoUpdateData(Datasets)
    \/ DoSimTick({}, FALSE)

SpecStore == Init /\ [][NextStore]_vars

(***************************************************************************)
(* SpecAddRemove: addNode and removeNode on the store the constructor      *)
(* built, without updateData.                                              *)
(***************************************************************************)
NextAddRemove ==
    \/ DoAddNode(NodeIds \cup {NoId}, NodeIds \cup {NoId})
    \/ DoSettleTimer
    \/ DoRemoveNode(NodeIds)
    \/ DoSimTick({}, FALSE)

SpecAddRemove == Init /\ [][NextAddRemove]_vars

(***************************************************************************)
(* SpecUpdate: updateData on every input of up to MaxNewNodes nodes and    *)
(* MaxNewLinks links, each endpoint a bare id or a node-shaped object.     *)
(***************************************************************************)
UpdateIds == {"A", "B"}
Endpoints == {Str("A"), Str("B"), Obj("B")}
SeqsUpTo(S, n) == UNION {[1..m -> S] : m \in 0..n}
UpdateInputs ==
    {[nodes |-> ns,
      links |-> [i \in 1..Len(es) |->
                    InputLink("e" \o ToString(i), es[i][1], es[i][2])]] :
        ns \in SeqsUpTo(UpdateIds, MaxNewNodes),
        es \in SeqsUpTo(Endpoints \X Endpoints, MaxNewLinks)}

NextUpdate == DoUpdateData(UpdateInputs)

SpecUpdate == Init /\ [][NextUpdate]_vars

(***************************************************************************)
(* SpecE2E: removeNode("B"), addNode({id: "D"}, "A") and updateData([X],   *)
(* [e1: X -> Y]) in this order on the store of A, B, C with the links A-B  *)
(* and B-C, while a pointer taps and the simulation runs.                  *)
(***************************************************************************)
InitE2E ==
    Constructed(<<"A", "B", "C">>,
                <<InputLink("edge_1", Str("A"), Str("B")),
                  InputLink("edge_2", Str("B"), Str("C"))>>)

E2ERemoveNode == lastCall.op = "constructor" /\ DoRemoveNode({"B"})
E2EAddNode == lastCall.op = "removeNode" /\ DoAddNode({"D"}, {"A"})
E2EUpdateData ==
    /\ lastCall.op = "addNode"
    /\ DoUpdateData({[nodes |-> <<"X">>,
                      links |-> <<InputLink("e1", Str("X"), Str("Y"))>>]})

NextE2E ==
    \/ E2ERemoveNode
    \/ E2EAddNode
    \/ E2EUpdateData
    \/ DoSettleTimer
    \/ DoPointerDown({1}, TapPts, FALSE)
    \/ DoPointerUp({1}, TapPts, FALSE)
    \/ DoSimTick({}, FALSE)

SpecE2E == InitE2E /\ [][NextE2E]_vars

(***************************************************************************)
(* The properties.                                                         *)
(***************************************************************************)
NodeIdsOf(ns) == [i \in 1..Len(ns) |-> ns[i].id]
NodeIdsUnique == \A i, j \in 1..Len(nodes) : nodes[i].id = nodes[j].id => i = j
DuplicateAddKeepsCount ==
    lastCall'.op = "addNode" =>
        \A id \in NodeIds, to \in NodeIds \cup {NoId} :
            ((\E i \in 1..Len(nodes) : nodes[i].id = id) /\ AddNode(id, to))
                => Len(nodes') = Len(nodes) /\ NodeIdsOf(nodes') = NodeIdsOf(nodes)

\* C1: whatever addNode calls are made (removeNode calls between them
\* included), no two nodes of the store share an id, and an addNode call
\* whose id is already in the store leaves the number of nodes as it was.
C1_Uniqueness == []NodeIdsUnique /\ [][DuplicateAddKeepsCount]_vars

\* A duplicate addNode has just been refused while the store holds two nodes.
C1_Witness ==
    /\ lastCall.op = "addNode"
    /\ emitted = <<Emit("console.warn: ID exists", NoId)>>
    /\ Len(nodes) = 2

\* The links of the store that do not touch the node object o, in order.
NotIncident(o) == SelectSeq(links, LAMBDA l : l.source # o /\ l.target # o)
IncidentCount(o) ==
    Cardinality({i \in 1..Len(links) : links[i].source = o \/ links[i].target = o})
RemoveNodeCascades ==
    lastCall'.op = "removeNode" =>
        \A id \in NodeIds :
            ((\E i \in 1..Len(nodes) : nodes[i].id = id) /\ RemoveNode(id))
                => LET k == CHOOSE i \in 1..Len(nodes) :
                               /\ nodes[i].id = id
                               /\ \A j \in 1..(i - 1) : nodes[j].id # id
                       o == nodes[k].oid
                   IN /\ nodes' = SubSeq(nodes, 1, k - 1) \o SubSeq(nodes, k + 1, Len(nodes))
                      /\ links' = NotIncident(o)
                      /\ Len(links') = Len(links) - IncidentCount(o)

\* C2: removeNode(id) for an id in the store takes out that node, every link
\* whose source or target is that node and no other link, so the number of
\* links falls by exactly the number of incident links, whatever calls of
\* addNode, removeNode and updateData built the store.
C2_Cascade == [][RemoveNodeCascades]_vars

\* removeNode has just taken a link out with its node and left another link.
C2_Witness ==
    /\ lastCall.op = "removeNode"
    /\ lastCall.dropped >= 1
    /\ Len(links) >= 1

\* The input links updateData is to keep: both endpoints name an input node.
KeptLinks(d) ==
    SelectSeq(d.links, LAMBDA l :
        /\ \E i \in 1..Len(d.nodes) : d.nodes[i] = EndpointId(l.source)
        /\ \E i \in 1..Len(d.nodes) : d.nodes[i] = EndpointId(l.target))
\* The node object oid is in the store and has the id.
StoreNodeHasId(oid, id) == \E i \in 1..Len(nodes) : nodes[i].oid = oid /\ nodes[i].id = id

\* C4: after updateData(nodes, edges) the store's nodes are the input nodes
\* and its links are exactly the input links whose source and target, each
\* a bare id or a node-shaped object, both name a node of the input, in the
\* order of the input and with the input's ids; every other link is dropped,
\* and the endpoints of a kept link are node objects of the new store with
\* the ids the input named.
C4_UpdateDataResolves ==
    lastCall.op = "updateData" =>
        LET d == lastCall.input
            kept == KeptLinks(d)
        IN /\ NodeIdsOf(nodes) = d.nodes
           /\ Len(links) = Len(kept)
           /\ lastCall.dropped = Len(d.links) - Len(kept)
           /\ \A i \in 1..Len(links) :
                 /\ i <= Len(kept)
                 /\ links[i].id = kept[i].id
                 /\ StoreNodeHasId(links[i].source, EndpointId(kept[i].source))
                 /\ StoreNodeHasId(links[i].target, EndpointId(kept[i].target))

\* updateData has just dropped its first link and kept its second, whose
\* source came as a bare id and whose target came as an object.
C4_Witness ==
    /\ lastCall.op = "updateData"
    /\ Len(lastCall.input.links) = 2
    /\ lastCall.dropped = 1
    /\ Len(links) = 1
    /\ links[1].id = "e2"
    /\ lastCall.input.links[2].source.type = "string"
    /\ lastCall.input.links[2].target.type = "object"

NodeIdSet == {nodes[i].id : i \in 1..Len(nodes)}
StoreIs(ids, n) == NodeIdSet = ids /\ Len(nodes) = Cardinality(ids) /\ Len(links) = n

\* C3: from the nodes A, B, C and the links A-B and B-C, removeNode("B")
\* leaves the nodes A, C and no link; then addNode({id: "D"}, "A") leaves
\* the nodes A, C, D and the one link from D to A; then
\* updateData([{id: "X"}], [{id: "e1", source: "X", target: "Y"}]) leaves the
\* node X and no link.
C3_EndToEnd ==
    /\ lastCall.op = "constructor" => StoreIs({"A", "B", "C"}, 2)
    /\ lastCall.op = "removeNode" => StoreIs({"A", "C"}, 0)
    /\ lastCall.op = "addNode" =>
          /\ StoreIs({"A", "C", "D"}, 1)
          /\ StoreNodeHasId(links[1].source, "D")
          /\ StoreNodeHasId(links[1].target, "A")
    /\ lastCall.op = "updateData" => StoreIs({"X"}, 0)

\* The three calls have been made: updateData has dropped the link to Y.
C3_Witness ==
    /\ lastCall.op = "updateData"
    /\ lastCall.dropped = 1
    /\ NodeIdsOf(nodes) = <<"X">>
    /\ links = <<>>

\* C5: after any calls of addNode, removeNode and updateData, the source and
\* the target of every link of the store are node objects of the store.
C5_NoDanglingEndpoint ==
    \A i \in 1..Len(links) :
        /\ links[i].source \in NodeOids(nodes)
        /\ links[i].target \in NodeOids(nodes)

\* A link that updateData stored has outlived the removal of a node that
\* addNode had linked into the store.
C5_Witness ==
    /\ lastCall.op = "removeNode"
    /\ lastCall.dropped = 1
    /\ Len(links) = 1
    /\ links[1].id = "e1"
    /\ Len(nodes) = 2

\* _performSelection has run in the step, at the world position (x, y).
SelectionRanAt(x, y) ==
    \E i \in 1..Len(emitted') : emitted'[i] = PerformSelectionCall(x, y)
SelectionRan ==
    \E i \in 1..Len(emitted') : emitted'[i].call = "_performSelection"
\* The step is a release (pointerup or pointercancel) of pointer p at s.
Release(p, s) == HandlePointerUp(p, s) \/ HandlePointerCancel(p, s)
NearAndInTime(p, s) ==
    /\ p \in PrimaryPointers
    /\ ReleaseKind(p, s) = "release: near and in time"
LateOrFar(p, s) == ReleaseKind(p, s) \in {"release: late", "release: far"}

C7_NonTapReleaseSelectsNothing ==
    [][lastCall'.op \in {"release: late", "release: far"} =>
          \A p \in GesturePointers, s \in ScreenPts :
             (LateOrFar(p, s) /\ Release(p, s))
                 => /\ ~SelectionRan
                    /\ UNCHANGED <<selectedNode, selectedLink>>]_vars

\* A late release has ended a drag while a node was selected.
C7_Witness ==
    /\ lastCall.op = "release: late"
    /\ emitted = <<Emit("onNodeDrag: end", "A")>>
    /\ selectedNode # NoNode

\* The step ran _performSelection; its call and the position it was given.
SelectionCall ==
    emitted'[CHOOSE i \in 1..Len(emitted') : emitted'[i].call = "_performSelection"]
SelectionToggles ==
    SelectionRan =>
        LET n == GetNodeAtPos(nodes, SelectionCall.x, SelectionCall.y)
            l == GetLinkAtPos(links, nodes, currentTransform,
                              SelectionCall.x, SelectionCall.y)
            selected == n # 0 /\ selectedNode # NoNode /\ selectedNode.id = nodes[n].id
        IN /\ selected => selectedNode' = NoNode
           /\ (n # 0 /\ ~selected) => selectedNode' = Ref(nodes[n])
           /\ (n = 0 /\ l = 0) => selectedNode' = NoNode /\ selectedLink' = NoLink

\* C8: a selection at a position that hits the selected node N sets
\* selectedNode to null; a selection at a position that hits a node N that is
\* not selected makes N the selected node; a selection at a position that
\* hits neither a node nor a link clears selectedNode and selectedLink.
C8_SelectionToggles == [][SelectionToggles]_vars

\* A selection at (0, 60), where a node is, has deselected that node.
C8_Witness ==
    /\ GetNodeAtPos(nodes, 0, 60) # 0
    /\ Len(emitted) >= 2
    /\ emitted[Len(emitted) - 1] = PerformSelectionCall(0, 60)
    /\ emitted[Len(emitted)] = Emit("onNodeClick", NoId)
    /\ selectedNode = NoNode

\* C9: selectedNode and selectedLink are never both non-null: a selection of
\* a node clears the link selection and a selection of a link clears the
\* node selection.
C9_SelectionExclusive == ~(selectedNode # NoNode /\ selectedLink # NoLink)

\* The selection of a node has just cleared the selection of a link.
C9_Witness ==
    /\ Len(emitted) >= 3
    /\ emitted[Len(emitted) - 2].call = "_performSelection"
    /\ emitted[Len(emitted) - 1] = Emit("onLinkClick", NoId)
    /\ emitted[Len(emitted)].call = "onNodeClick"
    /\ selectedNode # NoNode
    /\ selectedLink = NoLink

\* C10: whatever taps and calls of addNode, removeNode and updateData are
\* made, a non-null selectedNode is a node object of the store and a non-null
\* selectedLink is a link object of the store.
C10_SelectionInStore ==
    /\ selectedNode # NoNode =>
          \E i \in 1..Len(nodes) : Ref(nodes[i]) = selectedNode
    /\ selectedLink # NoLink =>
          \E i \in 1..Len(links) : Ref(links[i]) = selectedLink

\* removeNode has just removed the selected node and cleared the selection.
C10_Witness ==
    /\ lastCall.op = "removeNode"
    /\ emitted = <<Emit("onNodeClick", NoId)>>
    /\ selectedNode = NoNode

(***************************************************************************)
(* C11: with the listeners registered, a step of the widget (a tap, a      *)
(* click, removeNode, updateData or any other handler) that changes        *)
(* selectedNode calls onNodeClick exactly once, with the new value (null   *)
(* when the selection is cleared); a step that changes selectedLink calls  *)
(* onLinkClick exactly once, with the new value; and a step that leaves a  *)
(* selection as it was makes no call of its listener.                      *)
(***************************************************************************)
CallsOf(calls, name) == SelectSeq(calls, LAMBDA c : c.call = name)

SelectionReported ==
    /\ CallsOf(emitted', "onNodeClick") =
           IF selectedNode' # selectedNode
           THEN <<Emit("onNodeClick", selectedNode'.id)>>
           ELSE <<>>
    /\ CallsOf(emitted', "onLinkClick") =
           IF selectedLink' # selectedLink
           THEN <<Emit("onLinkClick", selectedLink'.id)>>
           ELSE <<>>

C11_SelectionChangesReported == [][SelectionReported]_vars

\* removeNode has taken out an endpoint of the selected link: the selection
\* is cleared and onLinkClick(null) is the one call made.
C11_Witness ==
    /\ lastCall.op = "removeNode"
    /\ lastCall.dropped > 0
    /\ selectedLink = NoLink
    /\ emitted = <<Emit("onLinkClick", NoId)>>

(***************************************************************************)
(* C12: whenever a node drag ends by a pointerup, pointercancel or         *)
(* pointerleave of the dragging pointer, in the state the handler leaves   *)
(* the dragged node's pinned position (fx, fy) is null unless that node is *)
(* the selected node, the simulation's alphaTarget is 0, draggingNode and  *)
(* primaryPointerId are null, and onNodeDrag 'end' was called for the      *)
(* node.                                                                   *)
(***************************************************************************)
\* The handlers that end the drag of pointer p.
DragEnd(p, s) ==
    /\ draggingNode # NoNode
    /\ p = primaryPointerId
    /\ \/ HandlePointerUp(p, s)
       \/ HandlePointerCancel(p, s)
       \/ HandlePointerLeave(p, s)

\* The node object ref is not pinned in ns (or is not in ns any more).
Unpinned(ns, ref) ==
    \A i \in 1..Len(ns) : ns[i].oid = ref.oid => ns[i].fx = null /\ ns[i].fy = null

DragEndReleases ==
    draggingNode # NoNode =>
        \A p \in GesturePointers, s \in ScreenPts :
            DragEnd(p, s) =>
                /\ selectedNode'.id # draggingNode.id => Unpinned(nodes', draggingNode)
                /\ simulation'.alphaTarget = 0
                /\ draggingNode' = NoNode
                /\ primaryPointerId' = null
                /\ Emit("onNodeDrag: end", draggingNode.id)
                       \in {emitted'[i] : i \in 1..Len(emitted')}

C12_DragEndReleases == [][DragEndReleases]_vars

(***************************************************************************)
(* C13: _performSelection at a position that hits a node that is not the   *)
(* selected node selects it and pins it where it is (fx = x, fy = y);      *)
(* _performSelection at a position that hits the selected node deselects   *)
(* it and unpins it (fx = fy = null), also when a drag had left it pinned. *)
(***************************************************************************)
SelectionPins ==
    SelectionRan =>
        LET n == GetNodeAtPos(nodes, SelectionCall.x, SelectionCall.y)
            selected == n # 0 /\ selectedNode # NoNode /\ selectedNode.id = nodes[n].id
        IN /\ (n # 0 /\ ~selected) =>
                 /\ selectedNode' = Ref(nodes[n])
                 /\ nodes'[n].fx = nodes'[n].x
                 /\ nodes'[n].fy = nodes'[n].y
           /\ selected =>
                 /\ selectedNode' = NoNode
                 /\ nodes'[n].fx = null
                 /\ nodes'[n].fy = null

C13_SelectionPins == [][SelectionPins]_vars

(***************************************************************************)
(* Zooming: d3's zoom behaviour with scaleExtent([minZoom, maxZoom]), as   *)
(* _setupZoom configures it, and resetZoom.  The transform d3 keeps for    *)
(* the canvas is currentTransform (the two differ only after a zoom event  *)
(* that the listener ignored during a drag).                               *)
(***************************************************************************)
Less(a, b) == a.num * b.den < b.num * a.den
Reduced(num, den) == LET g == GCD(num, den) IN Ratio(num \div g, den \div g)
Scale(t) == Ratio(t.kNum, t.kDen)

\* The scale d3 makes of k: Math.max(extent[0], Math.min(extent[1], k)).
ConstrainScale(k) ==
    IF Less(k, options.minZoom) THEN options.minZoom
    ELSE IF Less(options.maxZoom, k) THEN options.maxZoom
         ELSE k

\* A wheel gesture at screen position p that asks for the scale to be
\* multiplied by f: the filter lets it through when no node is dragged, d3
\* constrains the scale, keeps the world point under p where it is and sends
\* the zoom event.
WheelZoom(p, f) ==
    /\ draggingNode = NoNode
    /\ LET k0 == Scale(currentTransform)
           k == ConstrainScale(Reduced(k0.num * f.num, k0.den * f.den))
           wx == invertX(currentTransform, p[1])
           wy == invertY(currentTransform, p[2])
       IN HandleZoom([x |-> p[1] - (wx * k.num) \div k.den,
                      y |-> p[2] - (wy * k.num) \div k.den,
                      kNum |-> k.num, kDen |-> k.den])

\* resetZoom(): a transition of 750 ms towards d3.zoomIdentity is started on
\* the canvas; nothing else changes in the call.
ResetZoom ==
    /\ transition' = TRUE
    /\ emitted' = <<>>
    /\ UNCHANGED <<nodes, selectedNode, selectedLink, simulation, storeVars,
                   pointerVars>>

\* The end of the transition: zoomBehavior.transform has set d3.zoomIdentity,
\* which d3 does not constrain, and the last zoom event carries it.
TransitionEnd ==
    /\ transition
    /\ transition' = FALSE
    /\ HandleZoom(Identity)

\* A wheel gesture that the filter admits interrupts the transition under
\* way (d3 interrupts the transitions of the element when a gesture starts).
DoWheelZoom(Pts, Factors) ==
    \E p \in Pts, f \in Factors :
        /\ WheelZoom(p, f)
        /\ transition' = FALSE
        /\ UNCHANGED lastCall
        /\ UNCHANGED <<configVars, touchVars>>

DoResetZoom ==
    /\ ResetZoom
    /\ lastCall' = Call("resetZoom", 0, NoInput)
    /\ UNCHANGED <<configVars, touchVars>>

DoTransitionEnd ==
    /\ TransitionEnd
    /\ lastCall' = Call("resetZoom: transition end", 0, NoInput)
    /\ UNCHANGED <<configVars, touchVars>>

(***************************************************************************)
(* SpecZoom: the widget constructed with one of several pairs of zoom      *)
(* limits; the wheel zooms in and out about the canvas origin, resetZoom   *)
(* is called and its transition ends, and a pointer presses, releases and  *)
(* clicks.  The simulation is left out: the nodes stay where the           *)
(* constructor put them.                                                   *)
(***************************************************************************)
ZoomOptions ==
    {DefaultOptions,
     [minZoom |-> Ratio(1, 4), maxZoom |-> Ratio(1, 2)],
     [minZoom |-> Ratio(1, 1), maxZoom |-> Ratio(1, 1)],
     [minZoom |-> Ratio(2, 1), maxZoom |-> Ratio(8, 1)]}
WheelPts == {<<0, 0>>}
WheelFactors == {Ratio(2, 1), Ratio(1, 2)}

InitZoom ==
    \E o \in ZoomOptions :
        New(MountedCanvas, <<"A", "B">>,
            <<InputLink("edge_1", Str("A"), Str("B"))>>, o)

NextZoom ==
    \/ DoWheelZoom(WheelPts, WheelFactors)
    \/ DoResetZoom
    \/ DoTransitionEnd
    \/ DoPointerDown({1}, TapPts, TRUE)
    \/ DoPointerUp({1}, TapPts, TRUE)
    \/ DoClick(TapPts, TRUE)

\* d3's timer runs the transition to its end: a transition under way does
\* not stay under way for ever.
SpecZoom == InitZoom /\ [][NextZoom]_vars /\ WF_vars(DoTransitionEnd)

(***************************************************************************)
(* C14: in every reachable state, the initial state and the state after    *)
(* resetZoom included, options.minZoom <= currentTransform.k <=            *)
(* options.maxZoom, for every configured pair minZoom <= maxZoom.          *)
(***************************************************************************)
C14_ScaleWithinLimits ==
    /\ ~Less(Scale(currentTransform), options.minZoom)
    /\ ~Less(options.maxZoom, Scale(currentTransform))

(***************************************************************************)
(* SpecHit: the hit test of nodes on stores of one to MaxNodes nodes, each *)
(* at one of three positions on a line (two nodes may lie on each other),  *)
(* at the scales 1/4, 1 and 4; a pointer presses, releases and clicks at   *)
(* the query points.  The nodes do not move.                               *)
(***************************************************************************)
HitXs == {0, 80, 160}
HitScales == {[x |-> 0, y |-> 0, kNum |-> 1, kDen |-> 4],
              Identity,
              [x |-> 0, y |-> 0, kNum |-> 4, kDen |-> 1]}
HitQueries == {<<0, 0>>, <<40, 0>>, <<48, 0>>, <<200, 0>>}

InitHit ==
    \E t \in HitScales, xs \in SeqsUpTo(HitXs, MaxNodes) \ {<<>>} :
        /\ canvas = MountedCanvas
        /\ options = DefaultOptions
        /\ transition = FALSE
        /\ touches = <<>>
        /\ touchStartPos = NoPos
        /\ touchStartTime = 0
        /\ nodes = [i \in 1..Len(xs) |->
                       [oid |-> i, id |-> "N" \o ToString(i),
                        x |-> xs[i], y |-> 0, fx |-> null, fy |-> null]]
        /\ links = <<>>
        /\ selectedNode = NoNode
        /\ selectedLink = NoLink
        /\ draggingNode = NoNode
        /\ wasDragging = FALSE
        /\ currentTransform = t
        /\ activePointers = <<>>
        /\ primaryPointerId = null
        /\ simulation = [alpha |-> 0, alphaTarget |-> 0, running |-> FALSE,
                         nodes |-> OidSeq(nodes), links |-> <<>>]
        /\ timers = <<>>
        /\ now = 0
        /\ emitted = <<>>
        /\ lastCall = Event

NextHit ==
    \/ DoPointerDown({1}, HitQueries, TRUE)
    \/ DoPointerUp({1}, HitQueries, TRUE)
    \/ DoClick(HitQueries, TRUE)

SpecHit == InitHit /\ [][NextHit]_vars

\* transform.applyX / applyY: the screen position of a world position.
applyX(t, wx) == (wx * t.kNum) \div t.kDen + t.x
applyY(t, wy) == (wy * t.kNum) \div t.kDen + t.y

\* The square of the distance on the screen between the screen point s and
\* the projection of node n.
ScreenDistSq(t, s, n) ==
    (s[1] - applyX(t, n.x)) * (s[1] - applyX(t, n.x))
    + (s[2] - applyY(t, n.y)) * (s[2] - applyY(t, n.y))

\* What _getNodeAtPos returns for the screen point s.
NodeAtScreen(s) ==
    GetNodeAtPos(nodes, GetPointerPos(currentTransform, s).worldX,
                 GetPointerPos(currentTransform, s).worldY)

(***************************************************************************)
(* C15: the node hit tolerance is constant in screen pixels: at the scales *)
(* 0.25, 1 and 4, for a node at a world position P and a query point whose *)
(* distance on the screen from the projection of P is less than            *)
(* selectionRadius, _getNodeAtPos, called with the query point converted   *)
(* to world coordinates, returns that node (or, where several nodes are    *)
(* that near, one that is at least as near on the screen).                 *)
(***************************************************************************)
C15_ScreenTolerance ==
    \A s \in HitQueries, i \in 1..Len(nodes) :
        ScreenDistSq(currentTransform, s, nodes[i]) < selectionRadius * selectionRadius
        => /\ NodeAtScreen(s) # 0
           /\ ScreenDistSq(currentTransform, s, nodes[NodeAtScreen(s)])
                 <= ScreenDistSq(currentTransform, s, nodes[i])

(***************************************************************************)
(* C16: _getNodeAtPos returns no node when no node lies at a distance      *)
(* strictly less than selectionRadius from the query point; otherwise it   *)
(* returns the node of minimum distance, and among several nodes at that   *)
(* minimum distance the one inserted last (the highest index).             *)
(***************************************************************************)
DistSq(n, worldX, worldY) ==
    (worldX - n.x) * (worldX - n.x) + (worldY - n.y) * (worldY - n.y)

WithinRadius(ns, worldX, worldY) ==
    {i \in 1..Len(ns) : DistSq(ns[i], worldX, worldY) < selectionRadius * selectionRadius}

\* The step ran _performSelection at a position where node h is the nearest
\* node within the radius, the last of those equally near (h = 0: no node
\* is within the radius).
NearestAtSelection(h) ==
    LET near == WithinRadius(nodes, SelectionCall.x, SelectionCall.y)
        d(i) == DistSq(nodes[i], SelectionCall.x, SelectionCall.y)
    IN IF h = 0 THEN near = {}
       ELSE /\ h \in near
            /\ \A j \in near : d(h) < d(j) \/ (d(h) = d(j) /\ j <= h)

\* The node a run of _performSelection got from _getNodeAtPos, by what it
\* did with it: it toggled that node and told onNodeClick, or, with no node,
\* left no node selected.
SelectionHit(h) ==
    IF h = 0
    THEN selectedNode' = NoNode
    ELSE /\ selectedNode' = IF selectedNode.oid = nodes[h].oid THEN NoNode
                            ELSE Ref(nodes[h])
         /\ emitted'[Len(emitted')] = Emit("onNodeClick", selectedNode'.id)

NearestNodeHit ==
    SelectionRan =>
        /\ \A q \in HitQueries :
              LET pos == GetPointerPos(currentTransform, q)
                  near == WithinRadius(nodes, pos.worldX, pos.worldY)
                  h == GetNodeAtPos(nodes, pos.worldX, pos.worldY)
                  d(i) == DistSq(nodes[i], pos.worldX, pos.worldY)
              IN IF near = {} THEN h = 0
                 ELSE /\ h \in near
                      /\ \A j \in near : d(h) < d(j) \/ (d(h) = d(j) /\ j <= h)
        /\ \A h \in 0..Len(nodes) : NearestAtSelection(h) => SelectionHit(h)

C16_NearestNode == [][NearestNodeHit]_vars

\* A selection at a point as near to an earlier node as to the last one has
\* selected the last one.
C16_Witness ==
    /\ Len(nodes) = 3
    /\ emitted = <<PerformSelectionCall(40, 0), Emit("onNodeClick", "N3")>>
    /\ nodes[1].x = 0 /\ nodes[2].x = 160 /\ nodes[3].x = 80
    /\ selectedNode = Ref(nodes[3])

(***************************************************************************)
(* C17: an accepted addNode(node, connectToId) adds the node, and creates  *)
(* exactly one edge, from the new node to the node connectToId names, if   *)
(* and only if connectToId names a node that was in the store before the   *)
(* call; when connectToId is given and names no such node, the node is     *)
(* added all the same and the edges are as they were.                      *)
(***************************************************************************)
AddNodeLinksToStoredTarget ==
    lastCall'.op = "addNode" =>
        \A id \in NodeIds, to \in NodeIds \cup {NoId} :
            (~IdExists(nodes, id) /\ AddNode(id, to)) =>
                LET targetBefore == to # NoId /\ \E i \in 1..Len(nodes) : nodes[i].id = to
                    n == Len(nodes')
                    l == Len(links')
                IN /\ n = Len(nodes) + 1
                   /\ SubSeq(nodes', 1, n - 1) = nodes
                   /\ nodes'[n].id = id
                   /\ IF targetBefore
                      THEN /\ l = Len(links) + 1
                           /\ SubSeq(links', 1, l - 1) = links
                           /\ links'[l].source = nodes'[n].oid
                           /\ links'[l].target = nodes[MapGet(nodes, to)].oid
                      ELSE links' = links

C17_AddNodeLinksToStoredTarget == [][AddNodeLinksToStoredTarget]_vars

(***************************************************************************)
(* SpecSettle: addNode, its settle timer and removeNode while a pointer    *)
(* presses and releases on the nodes.  The callback addNode hands to       *)
(* setTimeout is run by the browser's event loop once its 100 ms are over: *)
(* a pending timer does not stay pending for ever (weak fairness).         *)
(***************************************************************************)
SettleIds == {"C"}

NextSettle ==
    \/ DoAddNode(SettleIds \cup {NoId}, {"A", NoId})
    \/ DoSettleTimer
    \/ DoRemoveNode(SettleIds)
    \/ DoPointerDown({1}, TapPts, FALSE)
    \/ DoPointerUp({1}, TapPts, FALSE)
    \/ DoSimTick({}, FALSE)

SpecSettle == Init /\ [][NextSettle]_vars /\ WF_vars(DoSettleTimer)

(***************************************************************************)
(* C18: an accepted addNode leaves the new node pinned at its initial      *)
(* position (fx = x, fy = y) and a settle timer pending for it; the timer, *)
(* when it fires, unpins the node of that id if it is in the store; and a  *)
(* node that is pinned with its timer pending is eventually unpinned or    *)
(* out of the store, without any further call.                             *)
(***************************************************************************)
AddNodePins ==
    (lastCall'.op = "addNode" /\ Len(nodes') = Len(nodes) + 1) =>
        LET n == nodes'[Len(nodes')]
        IN /\ n.fx = n.x
           /\ n.fy = n.y
           /\ timers' = Append(timers, n.id)

TimerUnpins ==
    (timers # <<>> /\ timers' = Tail(timers)) =>
        \A i \in 1..Len(nodes') :
            nodes'[i].id = Head(timers) => nodes'[i].fx = null /\ nodes'[i].fy = null

TimerPending(id) == \E i \in 1..Len(timers) : timers[i] = id
PinnedInStore(id) == \E i \in 1..Len(nodes) : nodes[i].id = id /\ nodes[i].fx # null

C18_SettleTimerUnpins ==
    /\ [][AddNodePins /\ TimerUnpins]_vars
    /\ \A id \in NodeIds :
          (TimerPending(id) /\ PinnedInStore(id)) ~> ~PinnedInStore(id)

\* The timer of the node added last has fired and the node, third in the
\* store, is not pinned.
C18_Witness ==
    /\ lastCall.op = "addNode"
    /\ emitted = <<>>
    /\ timers = <<>>
    /\ Len(nodes) = 3
    /\ nodes[3].fx = null

(***************************************************************************)
(* C19: a mutation that is rejected or has nothing to do (addNode with an  *)
(* id that is in the store, addNode without an id, removeNode of an id     *)
(* that is not in the store) leaves nodes (their pinned positions          *)
(* included), links, selectedNode, selectedLink and the simulation's alpha *)
(* as they were and schedules no settle timer.                             *)
(***************************************************************************)
InStore(id) == \E i \in 1..Len(nodes) : nodes[i].id = id

StoreUntouched ==
    /\ UNCHANGED <<nodes, links, selectedNode, selectedLink, timers>>
    /\ simulation' = simulation

RejectedMutationChangesNothing ==
    lastCall'.op \in {"addNode", "removeNode"} =>
        /\ \A id \in NodeIds \cup {NoId}, to \in NodeIds \cup {NoId} :
              ((id = NoId \/ InStore(id)) /\ AddNode(id, to)) => StoreUntouched
        /\ \A id \in NodeIds :
              (~InStore(id) /\ RemoveNode(id)) => StoreUntouched

C19_RejectedMutationChangesNothing == [][RejectedMutationChangesNothing]_vars

\* addNode has been refused for an id that is in the store, with a node
\* selected and the settle timer of an earlier addNode pending.
C19_Witness ==
    /\ lastCall.op = "addNode"
    /\ emitted = <<Emit("console.warn: ID exists", NoId)>>
    /\ selectedNode # NoNode
    /\ timers # <<>>
    /\ \E i \in 1..Len(nodes) : nodes[i].fx # null

(***************************************************************************)
(* SpecNew: the constructor on a canvas with or without a 2d context and   *)
(* with or without a parent element; the widget the constructor returns    *)
(* is pressed, released and clicked on, and its simulation ticks.          *)
(***************************************************************************)
CanvasElements == {CanvasElement(c, p) : c \in BOOLEAN, p \in BOOLEAN}

InitNew ==
    \E c \in CanvasElements :
        New(c, <<"A", "B">>, <<InputLink("edge_1", Str("A"), Str("B"))>>,
            DefaultOptions)

\* The constructor returned: there is a widget, with its listeners.
WidgetExists == canvas.parentElement

NextNew ==
    \/ WidgetExists /\ DoPointerDown({1}, TapPts, TRUE)
    \/ WidgetExists /\ DoPointerMove({1}, DragPts, TRUE)
    \/ WidgetExists /\ DoPointerUp({1}, TapPts, TRUE)
    \/ WidgetExists /\ DoClick(TapPts, TRUE)
    \/ WidgetExists /\ DoSimTick({}, TRUE)

SpecNew == InitNew /\ [][NextNew]_vars

(***************************************************************************)
(* C20: initialization fails fatally: when canvas.getContext gives null or *)
(* the canvas has no parent element, the constructor throws and does not   *)
(* complete, so that there is no widget with a simulation, a zoom          *)
(* behaviour or listeners, and no handler ever runs.                       *)
(***************************************************************************)
C20_InitFailsFatally ==
    (~canvas.context \/ ~canvas.parentElement) =>
        /\ lastCall.op = ConstructorError
        /\ simulation = NoSimulation
        /\ emitted = <<>>

(***************************************************************************)
(* C21: in every state reachable by construction, addNode, removeNode and  *)
(* updateData, no two nodes of the store have the same id, also after an   *)
(* updateData whose input node list repeats an id.                         *)
(***************************************************************************)
C21_NodeIdsUniqueAfterAnyCall ==
    \A i, j \in 1..Len(nodes) : i # j => nodes[i].id # nodes[j].id

(***************************************************************************)
(* C22: in every state reachable by addNode and removeNode from a store    *)
(* whose edge ids are distinct, no two edges of the store have the same    *)
(* id: the id addNode makes for an edge never is that of an edge in the    *)
(* store.                                                                  *)
(***************************************************************************)
C22_EdgeIdsUnique ==
    \A i, j \in 1..Len(links) : i # j => links[i].id # links[j].id

(***************************************************************************)
(* SpecMultiPointer: two primary pointers (the mouse and the first touch   *)
(* are each the primary pointer of their type) and one that is not press,  *)
(* move and release on the two nodes; every release is in time.            *)
(***************************************************************************)
MultiPts == {<<0, 60>>, <<120, 60>>}

NextMultiPointer ==
    \/ DoPointerDown(PointerIds, MultiPts, TRUE)
    \/ DoPointerMove(PointerIds, MultiPts, TRUE)
    \/ DoPointerUp(PointerIds, MultiPts, TRUE)
    \/ DoPointerCancel(PointerIds, MultiPts, TRUE)
    \/ DoPointerLeave(PointerIds, MultiPts, TRUE)

SpecMultiPointer == Init /\ [][NextMultiPointer]_vars

(***************************************************************************)
(* C23: a press on a node starts a drag only when no drag is active: while *)
(* draggingNode is not null, a pointerdown of any other pointer on a node  *)
(* leaves draggingNode and primaryPointerId as they are, pins no further   *)
(* node and calls no onNodeDrag 'start'.                                   *)
(***************************************************************************)
SecondPressStartsNoDrag ==
    draggingNode # NoNode =>
        \A p \in PointerIds \ {primaryPointerId}, s \in MultiPts :
            LET pos == GetPointerPos(currentTransform, s)
            IN (GetNodeAtPos(nodes, pos.worldX, pos.worldY) # 0
                /\ HandlePointerDown(p, s)) =>
                   /\ UNCHANGED <<draggingNode, primaryPointerId>>
                   /\ \A i \in 1..Len(nodes) :
                         nodes'[i].fx = nodes[i].fx /\ nodes'[i].fy = nodes[i].fy
                   /\ \A i \in 1..Len(emitted') :
                         emitted'[i].call # "onNodeDrag: start"

C23_SecondPressStartsNoDrag == [][SecondPressStartsNoDrag]_vars

(***************************************************************************)
(* C24: while a node is dragged, a pointermove, pointerup, pointercancel   *)
(* or pointerleave of any pointer other than the dragging one (one that    *)
(* was never pressed included) leaves draggingNode, primaryPointerId, the  *)
(* pinned position of the dragged node, the simulation's alphaTarget and   *)
(* wasDragging as they are.                                                *)
(***************************************************************************)
OtherPointerEvent(p, s) ==
    \/ HandlePointerMove(p, s)
    \/ HandlePointerUp(p, s)
    \/ HandlePointerCancel(p, s)
    \/ HandlePointerLeave(p, s)

OtherPointerLeavesDrag ==
    draggingNode # NoNode =>
        \A p \in PointerIds \ {primaryPointerId}, s \in MultiPts :
            OtherPointerEvent(p, s) =>
                /\ UNCHANGED <<draggingNode, primaryPointerId, wasDragging>>
                /\ simulation'.alphaTarget = simulation.alphaTarget
                /\ \A i \in 1..Len(nodes) :
                      nodes[i].oid = draggingNode.oid =>
                          nodes'[i].fx = nodes[i].fx /\ nodes'[i].fy = nodes[i].fy

C24_OtherPointerLeavesDrag == [][OtherPointerLeavesDrag]_vars

(***************************************************************************)
(* C25: node dragging and view gestures exclude each other: in every state *)
(* where draggingNode is not null the zoom filter admits no gesture, and   *)
(* no step that starts a drag, happens during it or ends it (a zoom event  *)
(* of resetZoom included) changes currentTransform, which is therefore the *)
(* same at the end of the drag as at its start.                            *)
(***************************************************************************)
DragKeepsTransform ==
    (draggingNode # NoNode \/ draggingNode' # NoNode) =>
        currentTransform' = currentTransform

C25_DragExcludesViewGestures ==
    /\ [](draggingNode # NoNode => ~ENABLED DoWheelZoom(WheelPts, WheelFactors))
    /\ [][DragKeepsTransform]_vars

\* The transition of resetZoom has ended during a drag at a scale other
\* than 1, and the transform is as it was.
C25_Witness ==
    /\ lastCall.op = "resetZoom: transition end"
    /\ draggingNode # NoNode
    /\ currentTransform # Identity

(***************************************************************************)
(* C26: after resetZoom is called, currentTransform, the transform used    *)
(* for hit testing and drawing, is eventually the identity, whatever the   *)
(* state of the gestures at the call, a node drag in progress included.    *)
(***************************************************************************)
C26_ResetZoomReachesIdentity ==
    (lastCall.op = "resetZoom") ~> (currentTransform = Identity)

(***************************************************************************)
(* SpecLinkHit: the hit test of links on stores of three nodes, two of     *)
(* them 120 apart and the third on one of the two (as a node that addNode  *)
(* places on the node it connects to), with up to MaxLinks links between   *)
(* them (two links may join the same nodes), at the scales 1/4, 1 and 4;   *)
(* a pointer presses, releases and clicks at the query points.  The nodes  *)
(* do not move.                                                            *)
(***************************************************************************)
LinkXs == {<<0, 120, 0>>, <<0, 120, 120>>}
LinkEnds == {<<1, 2>>, <<1, 3>>, <<2, 3>>}
LinkQueries == {<<60, 4>>, <<60, 8>>, <<240, 4>>, <<16, 4>>, <<0, 0>>}

InitLinkHit ==
    \E t \in HitScales, xs \in LinkXs,
       es \in SeqsUpTo(LinkEnds, MaxLinks) :
        /\ canvas = MountedCanvas
        /\ options = DefaultOptions
        /\ transition = FALSE
        /\ touches = <<>>
        /\ touchStartPos = NoPos
        /\ touchStartTime = 0
        /\ nodes = [i \in 1..Len(xs) |->
                       [oid |-> i, id |-> "N" \o ToString(i),
                        x |-> xs[i], y |-> 0, fx |-> null, fy |-> null]]
        /\ links = [i \in 1..Len(es) |->
                       [oid |-> i, id |-> "L" \o ToString(i),
                        source |-> es[i][1], target |-> es[i][2]]]
        /\ selectedNode = NoNode
        /\ selectedLink = NoLink
        /\ draggingNode = NoNode
        /\ wasDragging = FALSE
        /\ currentTransform = t
        /\ activePointers = <<>>
        /\ primaryPointerId = null
        /\ simulation = [alpha |-> 0, alphaTarget |-> 0, running |-> FALSE,
                         nodes |-> OidSeq(nodes), links |-> OidSeq(links)]
        /\ timers = <<>>
        /\ now = 0
        /\ emitted = <<>>
        /\ lastCall = Event

NextLinkHit ==
    \/ DoPointerDown({1}, LinkQueries, TRUE)
    \/ DoPointerUp({1}, LinkQueries, TRUE)
    \/ DoClick(LinkQueries, TRUE)

SpecLinkHit == InitLinkHit /\ [][NextLinkHit]_vars

\* The distance from (worldX, worldY) to the closest point of the segment
\* p0 p1 is less than linkTolerance / k: the closest point is p0 when the
\* projection falls before p0 (or the segment is the point p0), p1 when it
\* falls behind p1, and the foot of the perpendicular otherwise.
LinkDistLess(t, p0, p1, worldX, worldY) ==
    LET dx == p1.x - p0.x
        dy == p1.y - p0.y
        lengthSq == dx * dx + dy * dy
        dot == (worldX - p0.x) * dx + (worldY - p0.y) * dy
        tolSq(m) == linkTolerance * linkTolerance * t.kDen * t.kDen * m
    IN IF dot <= 0
       THEN DistSq(p0, worldX, worldY) * t.kNum * t.kNum < tolSq(1)
       ELSE IF dot >= lengthSq
            THEN DistSq(p1, worldX, worldY) * t.kNum * t.kNum < tolSq(1)
            ELSE (DistSq(p0, worldX, worldY) * lengthSq - dot * dot)
                     * t.kNum * t.kNum < tolSq(lengthSq)

\* The links whose endpoints have coordinates and whose segment is that near.
NearLinks(worldX, worldY) ==
    {i \in 1..Len(links) :
        /\ HasOid(nodes, links[i].source)
        /\ HasOid(nodes, links[i].target)
        /\ LinkDistLess(currentTransform, NodeByOid(nodes, links[i].source),
                        NodeByOid(nodes, links[i].target), worldX, worldY)}

\* Those of them whose endpoints lie at different positions.
NearLinksOfLength(worldX, worldY) ==
    {i \in NearLinks(worldX, worldY) :
        LET p0 == NodeByOid(nodes, links[i].source)
            p1 == NodeByOid(nodes, links[i].target)
        IN p0.x # p1.x \/ p0.y # p1.y}

\* The link inserted last of the set S of link indexes, 0 for none.
LastOf(S) == IF S = {} THEN 0 ELSE CHOOSE i \in S : \A j \in S : j <= i

\* A run of _performSelection that hit no node did with the link h what it
\* does with the link _getLinkAtPos returns: it toggled it, or, for h = 0,
\* left no link selected.
LinkSelectionHit(h) ==
    GetNodeAtPos(nodes, SelectionCall.x, SelectionCall.y) = 0 =>
        IF h = 0
        THEN selectedLink' = NoLink
        ELSE selectedLink' = IF selectedLink.oid = links[h].oid THEN NoLink
                             ELSE Ref(links[h])

\* A run of _performSelection got from _getLinkAtPos the last of the near
\* links, those of length zero counted (any) or not.
LastLinkHit(any) ==
    LET Near(x, y) == IF any THEN NearLinks(x, y) ELSE NearLinksOfLength(x, y)
    IN SelectionRan =>
          /\ \A q \in LinkQueries :
                LET pos == GetPointerPos(currentTransform, q)
                IN GetLinkAtPos(links, nodes, currentTransform, pos.worldX, pos.worldY)
                      = LastOf(Near(pos.worldX, pos.worldY))
          /\ LinkSelectionHit(LastOf(Near(SelectionCall.x, SelectionCall.y)))

(***************************************************************************)
(* C27: _getLinkAtPos returns, among the edges with defined endpoint       *)
(* coordinates whose distance from the query point to the closest point    *)
(* of the segment is strictly less than 5 / currentTransform.k, the one    *)
(* inserted last, and none when there is no such edge: the accepted        *)
(* distance is 5 screen pixels at the scales 1/4, 1 and 4.                 *)
(***************************************************************************)
C27_LastNearLinkHit == [][LastLinkHit(TRUE)]_vars

\* The same for the edges whose endpoints lie at different positions: an
\* edge of length zero is never returned.
C27_LastNearLinkOfLengthHit == [][LastLinkHit(FALSE)]_vars

\* At the scale 4 a selection at a point one world unit from two links
\* between the same nodes has selected the one inserted last.
C27_Witness ==
    /\ currentTransform.kNum = 4
    /\ Len(links) = 2
    /\ emitted = <<PerformSelectionCall(60, 1), Emit("onLinkClick", "L2")>>
    /\ selectedLink = Ref(links[2])

(***************************************************************************)
(* C28: in _performSelection a node hit takes priority over an edge hit:   *)
(* at a position that hits a node, an edge hit or not, the node selection  *)
(* is toggled and selectedLink ends null with no edge handed to            *)
(* onLinkClick; at a position that hits no node and an edge, the link      *)
(* selection is toggled (selected if it differs from selectedLink,         *)
(* deselected if it is selectedLink) and selectedNode ends null.           *)
(***************************************************************************)
NodeHitFirst ==
    SelectionRan =>
        LET n == GetNodeAtPos(nodes, SelectionCall.x, SelectionCall.y)
            l == GetLinkAtPos(links, nodes, currentTransform,
                              SelectionCall.x, SelectionCall.y)
        IN /\ n # 0 =>
                /\ selectedNode' = IF selectedNode.id = nodes[n].id /\ selectedNode # NoNode
                                   THEN NoNode ELSE Ref(nodes[n])
                /\ selectedLink' = NoLink
                /\ \A i \in 1..Len(emitted') :
                      emitted'[i].call = "onLinkClick" => emitted'[i].id = NoId
           /\ (n = 0 /\ l # 0) =>
                /\ selectedLink' = IF selectedLink.oid = links[l].oid
                                   THEN NoLink ELSE Ref(links[l])
                /\ selectedNode' = NoNode
                /\ \A i \in 1..Len(emitted') :
                      emitted'[i].call = "onNodeClick" => emitted'[i].id = NoId

C28_NodeHitFirst == [][NodeHitFirst]_vars

\* With a link selected, a selection at a point that hits a node and that
\* link has selected the node and cleared the link selection.
C28_Witness ==
    /\ currentTransform = Identity
    /\ Len(emitted) = 3
    /\ emitted[1] = PerformSelectionCall(16, 4)
    /\ emitted[2] = Emit("onLinkClick", NoId)
    /\ GetNodeAtPos(nodes, 16, 4) # 0
    /\ GetLinkAtPos(links, nodes, currentTransform, 16, 4) # 0
    /\ selectedNode = Ref(nodes[GetNodeAtPos(nodes, 16, 4)])
    /\ selectedLink = NoLink

(***************************************************************************)
(* C29: a PointerSession exists for a pointer exactly between its press    *)
(* and its release, cancel or leave: after every pointerdown of pointer p, *)
(* whatever it hit, activePointers has an entry for p, and after every     *)
(* pointerup, pointercancel or pointerleave of p it has none, whether or   *)
(* not p was dragging a node.                                              *)
(***************************************************************************)
SessionFromPressToRelease ==
    \A p \in GesturePointers, s \in ScreenPts :
        /\ HandlePointerDown(p, s) => p \in DOMAIN activePointers'
        /\ (\/ HandlePointerUp(p, s)
            \/ HandlePointerCancel(p, s)
            \/ HandlePointerLeave(p, s)) => p \notin DOMAIN activePointers'

C29_SessionFromPressToRelease == [][SessionFromPressToRelease]_vars

(***************************************************************************)
(* C30: after every accepted addNode, every removeNode of an id in the     *)
(* store and every updateData, the nodes and the links registered with the *)
(* simulation are the nodes and links of the widget, and after every       *)
(* updateData the simulation has alpha = 1 and is running.                 *)
(***************************************************************************)
\* The step is an updateData (with the input lastCall records), an addNode
\* that added a node, a removeNode that removed one.
UpdateDataCalled ==
    /\ lastCall'.op = "updateData"
    /\ UpdateData(lastCall'.input.nodes, lastCall'.input.links)
AcceptedMutation ==
    \/ lastCall'.op = "addNode" /\ Len(nodes') = Len(nodes) + 1
    \/ lastCall'.op = "removeNode" /\ Len(nodes') = Len(nodes) - 1
    \/ UpdateDataCalled

MutationRegistersStore ==
    /\ AcceptedMutation =>
          /\ simulation'.nodes = OidSeq(nodes')
          /\ simulation'.links = OidSeq(links')
    /\ UpdateDataCalled =>
          /\ simulation'.alpha = 1000
          /\ simulation'.running

C30_MutationRegistersStore == [][MutationRegistersStore]_vars

\* An updateData with two nodes and a link that resolves has registered its
\* nodes and its link, and the simulation is at alpha = 1.
C30_Witness ==
    /\ lastCall.op = "updateData"
    /\ Len(nodes) = 2 /\ Len(links) = 1
    /\ links[1].id = "e1"
    /\ simulation.nodes = OidSeq(nodes)
    /\ simulation.links = OidSeq(links)
    /\ simulation.alpha = 1000

(***************************************************************************)
(* C32: whenever no node drag is active (draggingNode is null), every node *)
(* with a pinned position (fx, fy not null) is the selected node or a node *)
(* whose settle timer is pending: no sequence of presses, moves, releases, *)
(* cancels, taps and clicks leaves any other node pinned.                  *)
(***************************************************************************)
C32_OnlySelectedOrSettlingPinned ==
    draggingNode = NoNode =>
        \A i \in 1..Len(nodes) :
            (nodes[i].fx # null \/ nodes[i].fy # null) =>
                \/ selectedNode.oid = nodes[i].oid
                \/ TimerPending(nodes[i].id)

(***************************************************************************)
(* C33: while a node is being dragged it is pinned: in every state where   *)
(* draggingNode is not null, the fx and fy of the dragged node are not     *)
(* null, under every interleaving of the pointer events with the settle    *)
(* timer of addNode.                                                       *)
(***************************************************************************)
C33_DraggedNodePinned ==
    draggingNode # NoNode =>
        \A i \in 1..Len(nodes) :
            nodes[i].oid = draggingNode.oid =>
                nodes[i].fx # null /\ nodes[i].fy # null

(***************************************************************************)
(* C34: in every state reachable by any interleaving of pointer events     *)
(* with removeNode and updateData calls, a draggingNode that is not null   *)
(* is a node object of the store, so that no onNodeDrag 'drag' or 'end'    *)
(* is emitted for a node id that is not in the store.                      *)
(***************************************************************************)
C34_DraggingNodeInStore ==
    /\ draggingNode # NoNode => HasOid(nodes, draggingNode.oid)
    /\ \A i \in 1..Len(emitted) :
          emitted[i].call \in {"onNodeDrag: drag", "onNodeDrag: end"}
              => \E j \in 1..Len(nodes) : nodes[j].id = emitted[i].id

\* The handler that ran last was the release of a tap at s: it found the
\* release near its press and in time and ran _performSelection at s.
TapReleasedAt(s) ==
    /\ lastCall.op = "release: near and in time"
    /\ \E i \in 1..Len(emitted) :
          emitted[i] = PerformSelectionCall(GetPointerPos(currentTransform, s).worldX,
                                            GetPointerPos(currentTransform, s).worldY)

(***************************************************************************)
(* C35: for one physical tap (pointerdown, pointerup, then the click event *)
(* the browser delivers for the same gesture) _performSelection runs       *)
(* exactly once: the click that follows the release of a tap at the same   *)
(* position, a new event that nothing has cancelled, runs it no second     *)
(* time and leaves the selection as the release left it, so that a tap on  *)
(* an unselected node leaves that node selected.                           *)
(***************************************************************************)
TapSelectsOnce ==
    \A s \in ScreenPts :
        (TapReleasedAt(s) /\ HandleClick(s, FALSE))
            => /\ ~SelectionRan
               /\ UNCHANGED <<selectedNode, selectedLink>>

C35_TapSelectsOnce == [][TapSelectsOnce]_vars

(***************************************************************************)
(* SpecDragGesture: the drags of one pointer.  A release comes only after  *)
(* a move of the dragging pointer; the simulation moves the dragged node   *)
(* to where it is pinned, and clicks arrive.                               *)
(***************************************************************************)
NextDragGesture ==
    \/ DoPointerDown({1}, ScreenPts, TRUE)
    \/ DoPointerMove({1}, ScreenPts, TRUE)
    \/ wasDragging /\ DoPointerUp({1}, ScreenPts, TRUE)
    \/ DoClick(ScreenPts, TRUE)
    \/ DoSimTick({}, TRUE)

SpecDragGesture == Init /\ [][NextDragGesture]_vars

\* The handler that ran last was a release that ended a node drag without a
\* tap (it called onNodeDrag with 'end' and nothing else), and s is a
\* position on the node that was dragged.
DragReleasedAt(s) ==
    /\ lastCall.op \in {"release: far", "release: late", "release: near and in time"}
    /\ emitted # <<>>
    /\ emitted[1].call = "onNodeDrag: end"
    /\ ~\E i \in 1..Len(emitted) : emitted[i].call = "_performSelection"
    /\ LET n == GetNodeAtPos(nodes, GetPointerPos(currentTransform, s).worldX,
                             GetPointerPos(currentTransform, s).worldY)
       IN n # 0 /\ nodes[n].id = emitted[1].id

(***************************************************************************)
(* C36: a completed node drag (pointerdown on a node, at least one         *)
(* pointermove of the dragging pointer, pointerup, then the click event    *)
(* delivered for the same gesture) leaves selectedNode and selectedLink as *)
(* they were before the press: the release that ends the drag without a    *)
(* tap leaves both as they were, and so does the click on the dragged node *)
(* that follows the release.                                               *)
(***************************************************************************)
DragKeepsSelection ==
    /\ ((\E i \in 1..Len(emitted') : emitted'[i].call = "onNodeDrag: end")
           /\ ~SelectionRan)
       => UNCHANGED <<selectedNode, selectedLink>>
    /\ \A s \in ScreenPts :
          (DragReleasedAt(s) /\ HandleClick(s, FALSE))
              => UNCHANGED <<selectedNode, selectedLink>>

C36_DragKeepsSelection == [][DragKeepsSelection]_vars

(***************************************************************************)
(* C37: the onNodeDrag events are well bracketed: each 'start' for a node  *)
(* is followed by 'drag' events for that node and then one 'end' for it    *)
(* before any other 'start', and no 'drag' or 'end' comes without an open  *)
(* 'start' for the same node.  The open 'start' is the drag in progress:   *)
(* a 'start' is emitted only when no drag is open and opens the drag of    *)
(* its node, 'drag' and 'end' are emitted only for the node of the open    *)
(* drag, and an 'end' closes it.                                           *)
(***************************************************************************)
DragEventsOf(calls) ==
    SelectSeq(calls, LAMBDA c : c.call \in {"onNodeDrag: start", "onNodeDrag: drag",
                                            "onNodeDrag: end"})

DragEventsBracketed ==
    LET evs == DragEventsOf(emitted')
    IN \A i \in 1..Len(evs) :
          /\ evs[i].call = "onNodeDrag: start" =>
                /\ draggingNode = NoNode
                /\ draggingNode'.id = evs[i].id
          /\ evs[i].call \in {"onNodeDrag: drag", "onNodeDrag: end"} =>
                /\ draggingNode # NoNode
                /\ draggingNode.id = evs[i].id
          /\ evs[i].call = "onNodeDrag: drag" => draggingNode' = draggingNode
          /\ evs[i].call = "onNodeDrag: end" => draggingNode' = NoNode

C37_DragEventsBracketed ==
    /\ [][DragEventsBracketed]_vars
    /\ [][draggingNode' # draggingNode => DragEventsOf(emitted') # <<>>]_vars

(***************************************************************************)
(* C38: the simulation is held hot exactly while a drag is active: in      *)
(* every reachable state alphaTarget is 0.3 if draggingNode is not null    *)
(* and 0 if draggingNode is null.                                          *)
(***************************************************************************)
C38_HotExactlyWhileDragging ==
    simulation.alphaTarget = IF draggingNode # NoNode THEN 300 ELSE 0

\* A drag has started, moved the node and ended, and the target is 0 again.
C38_Witness ==
    /\ lastCall.op = "release: far"
    /\ emitted = <<Emit("onNodeDrag: end", "A")>>
    /\ draggingNode = NoNode
    /\ simulation.alphaTarget = 0

(***************************************************************************)
(* C39: in every reachable state draggingNode is not null if and only if   *)
(* primaryPointerId is not null, and a primaryPointerId that is not null   *)
(* is a key of activePointers.                                             *)
(***************************************************************************)
C39_DragHasPrimaryPointer ==
    /\ draggingNode # NoNode <=> primaryPointerId # null
    /\ primaryPointerId # null => primaryPointerId \in DOMAIN activePointers

\* A drag is in progress: its pointer is the primary pointer and has an
\* entry.
C39_Witness ==
    /\ draggingNode # NoNode
    /\ primaryPointerId = 1
    /\ wasDragging
    /\ 1 \in DOMAIN activePointers

(***************************************************************************)
(* The mouse/touch variant of the widget (touchstart, touchmove, touchend  *)
(* in place of the pointer events).  It has no activePointers and no       *)
(* primaryPointerId; its tap test uses touchStartPos and touchStartTime,   *)
(* its node hit test the node radius, and its selection pins the selected  *)
(* node.  touches is the list of touches on the canvas as the browser      *)
(* hands it to the handlers in event.touches: the identifier and the       *)
(* position of each touch, the oldest first.                               *)
(***************************************************************************)
nodeRadius == 8
TouchIds == {1, 2}
TouchPts == {<<0, 60>>, <<3, 60>>, <<120, 60>>, <<60, 0>>}

Touch(identifier, s) == [identifier |-> identifier, pos |-> s]
TouchIdentifiers(list) == {list[i].identifier : i \in 1..Len(list)}

\* The loop of the variant's _getNodeAtPos from index i down to 1: the first
\* node within the node radius.
RECURSIVE ScanNodesInRadius(_, _, _, _)
ScanNodesInRadius(ns, worldX, worldY, i) ==
    IF i = 0 THEN 0
    ELSE LET dx == worldX - ns[i].x
             dy == worldY - ns[i].y
         IN IF dx * dx + dy * dy < nodeRadius * nodeRadius
            THEN i
            ELSE ScanNodesInRadius(ns, worldX, worldY, i - 1)

\* _getNodeAtPos of the variant: the index in ns of the node hit, 0 when
\* none is.
GetNodeAtPosInRadius(ns, worldX, worldY) ==
    ScanNodesInRadius(ns, worldX, worldY, Len(ns))

\* _getPointerPos of the variant for a touch event: the position of
\* event.touches[0] when a touch is on the canvas and of
\* event.changedTouches[0] otherwise.
GetTouchPos(t, eventTouches, changedTouches) ==
    GetPointerPos(t, IF Len(eventTouches) > 0
                     THEN eventTouches[1].pos
                     ELSE changedTouches[1].pos)

\* _clearSelections of the variant on the selection sel, which carries the
\* nodes and the listener calls made so far: a node selection that is
\* cleared is unpinned.
ClearSelectionsUnpinning(sel, clearNode, clearLink) ==
    LET n == clearNode /\ sel.selectedNode # NoNode
        l == clearLink /\ sel.selectedLink # NoLink
    IN [selectedNode |-> IF n THEN NoNode ELSE sel.selectedNode,
        selectedLink |-> IF l THEN NoLink ELSE sel.selectedLink,
        nodes |-> IF n THEN Pin(sel.nodes, sel.selectedNode.oid, null, null)
                  ELSE sel.nodes,
        calls |-> sel.calls
                  \o (IF n THEN <<Emit("onNodeClick", NoId)>> ELSE <<>>)
                  \o (IF l THEN <<Emit("onLinkClick", NoId)>> ELSE <<>>)]

\* _performSelection of the variant after the calls done: the selection and
\* the nodes it leaves and the calls made.
PerformSelectionPinning(worldX, worldY, done) ==
    LET clickedNode == GetNodeAtPosInRadius(nodes, worldX, worldY)
        clickedLink == GetLinkAtPos(links, nodes, currentTransform, worldX, worldY)
        s0 == [selectedNode |-> selectedNode, selectedLink |-> selectedLink,
               nodes |-> nodes,
               calls |-> done \o <<PerformSelectionCall(worldX, worldY)>>]
    IN IF clickedNode # 0
       THEN LET s1 == ClearSelectionsUnpinning(s0, FALSE, TRUE)
                c == nodes[clickedNode]
            IN IF s1.selectedNode # NoNode /\ s1.selectedNode.id = c.id
               THEN [s1 EXCEPT
                        !.nodes = Pin(@, s1.selectedNode.oid, null, null),
                        !.selectedNode = NoNode,
                        !.calls = @ \o <<Emit("onNodeClick", NoId)>>]
               ELSE [s1 EXCEPT
                        !.nodes = Pin(Pin(@, s1.selectedNode.oid, null, null),
                                      c.oid, c.x, c.y),
                        !.selectedNode = Ref(c),
                        !.calls = @ \o <<Emit("onNodeClick", c.id)>>]
       ELSE IF clickedLink # 0
            THEN LET s1 == ClearSelectionsUnpinning(s0, TRUE, FALSE)
                     l == IF s1.selectedLink.oid = links[clickedLink].oid
                          THEN NoLink
                          ELSE Ref(links[clickedLink])
                 IN [s1 EXCEPT !.selectedLink = l,
                               !.calls = @ \o <<Emit("onLinkClick", l.id)>>]
            ELSE ClearSelectionsUnpinning(s0, TRUE, TRUE)

\* _handleTouchStart for a touchstart of the new touch identifier at screen
\* position s.
HandleTouchStart(identifier, s) ==
    LET eventTouches == Append(touches, Touch(identifier, s))
        pos == GetTouchPos(currentTransform, eventTouches, <<Touch(identifier, s)>>)
        node == GetNodeAtPosInRadius(nodes, pos.worldX, pos.worldY)
    IN /\ touches' = eventTouches
       /\ IF Len(eventTouches) = 1
          THEN /\ touchStartPos' = <<pos.screenX, pos.screenY>>
               /\ touchStartTime' = now
               /\ IF node # 0
                  THEN /\ draggingNode' = Ref(nodes[node])
                       /\ nodes' = Pin(nodes, nodes[node].oid, pos.worldX, pos.worldY)
                       /\ simulation' = [simulation EXCEPT !.alphaTarget = 300,
                                                           !.running = TRUE]
                       /\ emitted' = <<Emit("onNodeDrag: start", nodes[node].id)>>
                  ELSE /\ emitted' = <<>>
                       /\ UNCHANGED <<draggingNode, nodes, simulation>>
          ELSE /\ draggingNode' = NoNode
               /\ emitted' = <<>>
               /\ UNCHANGED <<touchStartPos, touchStartTime, nodes, simulation>>
       /\ wasDragging' = FALSE
       /\ UNCHANGED <<selectedNode, selectedLink, storeVars, currentTransform,
                      activePointers, primaryPointerId, now>>

\* _handleTouchMove for a touchmove that takes the touch identifier to the
\* screen position s.
HandleTouchMove(identifier, s) ==
    LET eventTouches == [i \in 1..Len(touches) |->
                            IF touches[i].identifier = identifier
                            THEN Touch(identifier, s)
                            ELSE touches[i]]
        pos == GetTouchPos(currentTransform, eventTouches, <<Touch(identifier, s)>>)
    IN /\ touches' = eventTouches
       /\ IF draggingNode = NoNode \/ Len(eventTouches) # 1
          THEN /\ emitted' = <<>>
               /\ UNCHANGED <<nodes, wasDragging>>
          ELSE /\ nodes' = Pin(nodes, draggingNode.oid, pos.worldX, pos.worldY)
               /\ wasDragging' = TRUE
               /\ emitted' = <<Emit("onNodeDrag: drag", draggingNode.id)>>
       /\ UNCHANGED <<selectedNode, selectedLink, simulation, storeVars,
                      draggingNode, currentTransform, activePointers,
                      primaryPointerId, now, touchStartPos, touchStartTime>>

\* The touches left when the touch identifier is lifted.
WithoutTouch(list, identifier) ==
    SelectSeq(list, LAMBDA t : t.identifier # identifier)

\* _handleTouchEnd for a touchend or touchcancel of the touch identifier,
\* which is lifted where it is.
HandleTouchEnd(identifier) ==
    LET eventTouches == WithoutTouch(touches, identifier)
        changedTouches == SelectSeq(touches, LAMBDA t : t.identifier = identifier)
        endedDrag == draggingNode # NoNode
        pos == GetTouchPos(currentTransform, eventTouches, changedTouches)
        timeElapsed == now - touchStartTime
        isTap == /\ Len(changedTouches) = 1
                 /\ ~wasDragging
                 /\ ~endedDrag
                 /\ touchStartPos # NoPos
                 /\ timeElapsed < tapTimeout
                 /\ (pos.screenX - touchStartPos[1]) * (pos.screenX - touchStartPos[1])
                    + (pos.screenY - touchStartPos[2]) * (pos.screenY - touchStartPos[2])
                        < tapThreshold * tapThreshold
        done == IF endedDrag THEN <<Emit("onNodeDrag: end", draggingNode.id)>> ELSE <<>>
        sel == IF isTap
               THEN PerformSelectionPinning(pos.worldX, pos.worldY, done)
               ELSE [selectedNode |-> selectedNode, selectedLink |-> selectedLink,
                     nodes |-> IF endedDrag /\ (selectedNode = NoNode
                                                \/ selectedNode.id # draggingNode.id)
                               THEN Pin(nodes, draggingNode.oid, null, null)
                               ELSE nodes,
                     calls |-> done]
    IN /\ touches' = eventTouches
       /\ simulation' = IF endedDrag
                        THEN [simulation EXCEPT !.alphaTarget = 0]
                        ELSE simulation
       /\ draggingNode' = NoNode
       /\ nodes' = sel.nodes
       /\ selectedNode' = sel.selectedNode
       /\ selectedLink' = sel.selectedLink
       /\ emitted' = sel.calls
       /\ wasDragging' = FALSE
       /\ touchStartPos' = NoPos
       /\ UNCHANGED <<touchStartTime, storeVars, currentTransform, activePointers,
                      primaryPointerId, now>>

DoTouchStart(Ids, Pts) ==
    \E identifier \in Ids \ TouchIdentifiers(touches), s \in Pts :
        /\ simulation # NoSimulation
        /\ HandleTouchStart(identifier, s)
        /\ lastCall' = Call("touchstart", 0, NoInput)
        /\ UNCHANGED <<configVars, transition>>

DoTouchMove(Pts) ==
    \E identifier \in TouchIdentifiers(touches), s \in Pts :
        /\ HandleTouchMove(identifier, s)
        /\ lastCall' = Call("touchmove", 0, NoInput)
        /\ UNCHANGED <<configVars, transition>>

DoTouchEnd ==
    \E identifier \in TouchIdentifiers(touches) :
        /\ simulation # NoSimulation
        /\ HandleTouchEnd(identifier)
        /\ lastCall' = Call("touchend", 0, NoInput)
        /\ UNCHANGED <<configVars, transition>>

(***************************************************************************)
(* SpecTouch: two fingers on the canvas of the variant.  A finger moves    *)
(* only while it drags a node, which is when the zoom behaviour (whose     *)
(* filter refuses a gesture that starts during a drag or on a node) takes  *)
(* no part in the gesture.                                                 *)
(***************************************************************************)
NextTouch ==
    \/ DoTouchStart(TouchIds, TouchPts)
    \/ draggingNode # NoNode /\ DoTouchMove(TouchPts)
    \/ DoTouchEnd
    \/ DoAdvance(TRUE)

SpecTouch == Init /\ [][NextTouch]_vars

\* C31: in the mouse/touch variant a second touch does not interrupt a node
\* drag: whenever no touch is left on the canvas no drag is open, the
\* simulation's alphaTarget is 0 and no node but the selected node is
\* pinned.
C31_AllTouchesEndedEndsDrag ==
    touches = <<>> =>
        /\ draggingNode = NoNode
        /\ simulation.alphaTarget = 0
        /\ \A i \in 1..Len(nodes) :
              (nodes[i].fx # null \/ nodes[i].fy # null)
                  => selectedNode.oid = nodes[i].oid

====
